---- MODULE Spec2Model ----
(***************************************************************************)
(* A model of LIBLR, a bottom-up parser generator: the in-memory grammar,  *)
(* the grammar analyzer (mid-rule action lifting, nullable flags, FIRST,   *)
(* FOLLOW, SELECT, grammar checks), the LR(0)/SLR/LR(1)/LALR(1) state      *)
(* construction, the table builder, the conflict solver and the push-down  *)
(* driver.  Names follow src/LIBLR.py.                                     *)
(***************************************************************************)
EXTENDS Integers, Sequences, FiniteSets, TLC

(***************************************************************************)
(* Bounds of the model.                                                    *)
(***************************************************************************)
MaxProds == 3

(***************************************************************************)
(* Symbols.  A symbol is its name; the terminal flag of a symbol of a      *)
(* grammar is membership of the name in the grammar's terminal registry.   *)
(***************************************************************************)
None == "None"

EPSILON == ""

EOF == "$"

PSHARP == "#"

AUG == "S^"

\* Every name of the model in the order of Python's string comparison
\* (code points: # $ ' ( ) * + = @ A..Z ^ a..z).
NameOrder ==
  << "", "#", "$", "'('", "')'", "'*'", "'+'", "'-'", "'='", "'a'", "'b'", "'c'", "'x'", "'y'",
     "'z'", "A", "B", "C", "E", "F", "L", "M@1", "M@2", "M@3", "M@4", "R", "S", "S^", "T",
     "id", "number" >>

NameRank(n) == CHOOSE i \in 1..Len(NameOrder) : NameOrder[i] = n

\* Symbol.__lt__ : ordering is by name.
SymbolLt(a, b) == NameRank(a) < NameRank(b)

\* Symbol._is_literal : a name enclosed in quotes.
is_literal(n) ==
  n \in {"'('", "')'", "'*'", "'+'", "'-'", "'='", "'a'", "'b'", "'c'", "'x'", "'y'", "'z'"}

\* RulePtr.__ge__ compares repr(lookahead): "None" sorts before every
\* "Symbol(...)", and the repr of a quoted name is written with double quotes
\* and so sorts before every plain name.
ReprRank(n) ==
  IF n = None THEN 0
  ELSE IF is_literal(n) THEN NameRank(n)
  ELSE NameRank(n) + Len(NameOrder)

\* "M@%d" % name_id
MarkerName(k) == "M@" \o ToString(k)

(***************************************************************************)
(* Generic helpers.                                                        *)
(***************************************************************************)
Range(s) == {s[i] : i \in 1..Len(s)}

Contains(s, x) == \E i \in 1..Len(s) : s[i] = x

AppendNew(s, x) == IF Contains(s, x) THEN s ELSE Append(s, x)

RECURSIVE AppendAllNew(_, _)
AppendAllNew(s, t) ==
  IF t = <<>> THEN s ELSE AppendAllNew(AppendNew(s, Head(t)), Tail(t))

RECURSIVE NameSeq(_)
\* A Python set of names yields its elements in an order fixed by the
\* interpreter; the model lists them by name.
NameSeq(S) ==
  IF S = {} THEN <<>>
  ELSE LET x == CHOOSE y \in S : \A z \in S : NameRank(y) <= NameRank(z)
       IN <<x>> \o NameSeq(S \ {x})

NoAction == [k \in {} |-> <<>>]

\* a list or dict built in full: every entry is computed once, when the
\* container is made
Built(f) == f @@ <<>>

\* e, evaluated after the container v has been computed: the loops below
\* run step by step, each on the finished result of the step before
After(v, e) == IF DOMAIN v = DOMAIN v THEN e ELSE e

(***************************************************************************)
(* Production and Grammar.                                                 *)
(*   head, body        Production.head, Production.body (ε stripped)       *)
(*   precedence        name of a terminal, or None                         *)
(*   action            position (0-based) -> list of <<tag, stack-offset>> *)
(*   anchored          the grammar's anchor map has a line for the rule    *)
(*   is_epsilon, has_epsilon   the tri-state flags kept on the production  *)
(*   parent            <<head, body>> of the production a marker was       *)
(*                     lifted from; <<>> when the attribute is absent      *)
(***************************************************************************)
Production(head, body, prec, action, anchored) ==
  [head |-> head, body |-> body, precedence |-> prec, action |-> action,
   anchored |-> anchored, is_epsilon |-> None, has_epsilon |-> None,
   parent |-> <<>>]

Term(g, n) == n \in g.terminal

\* Vector.rightmost_terminal
RECURSIVE rightmost_terminal(_, _)
rightmost_terminal(g, body) ==
  IF body = <<>> THEN None
  ELSE IF Term(g, body[Len(body)]) THEN body[Len(body)]
  ELSE rightmost_terminal(g, SubSeq(body, 1, Len(body) - 1))

\* Vector.leftmost_terminal
RECURSIVE leftmost_terminal(_, _)
leftmost_terminal(g, body) ==
  IF body = <<>> THEN None
  ELSE IF Term(g, Head(body)) THEN Head(body)
  ELSE leftmost_terminal(g, Tail(body))

RECURSIVE SymbolsOf(_, _)
\* the keys of Grammar.symbol in insertion order: head, then body, per rule
SymbolsOf(prods, acc) ==
  IF prods = <<>> THEN acc
  ELSE SymbolsOf(Tail(prods),
                 AppendAllNew(AppendNew(acc, Head(prods).head), Head(prods).body))

\* an update that tags a production with its rightmost terminal whether or
\* not that terminal has a declared precedence
update_with_any_rightmost(g) ==
  [g EXCEPT
     !.symbol = SymbolsOf(g.production, <<>>),
     !.production =
        Built([i \in 1..Len(g.production) |->
                 LET p == g.production[i]
                     r == rightmost_terminal(g, p.body)
                 IN IF p.precedence = None /\ r # None
                    THEN [p EXCEPT !.precedence = r]
                    ELSE p])]

\* Grammar.update : rebuild the symbol registry and fill every unset
\* precedence tag from the rightmost terminal that has a declared precedence.
update(g) ==
  [g EXCEPT
     !.symbol = SymbolsOf(g.production, <<>>),
     !.production =
        Built([i \in 1..Len(g.production) |->
                 LET p == g.production[i]
                     r == rightmost_terminal(g, p.body)
                 IN IF p.precedence = None /\ r # None /\ r \in DOMAIN g.precedence
                    THEN [p EXCEPT !.precedence = r]
                    ELSE p])]

\* Grammar.rule[name] : the indices (0-based) of the rules of a head, in order
RECURSIVE RuleFrom(_, _, _)
RuleFrom(g, name, i) ==
  IF i > Len(g.production) THEN <<>>
  ELSE (IF g.production[i].head = name THEN <<i - 1>> ELSE <<>>)
       \o RuleFrom(g, name, i + 1)

rule(g, name) == RuleFrom(g, name, 1)

Prod(g, idx) == g.production[idx + 1]

Nonterminals(g) == {n \in Range(g.symbol) : ~Term(g, n)}

\* Grammar.augment : S^ -> start is inserted at index 0
augment(g) ==
  update([g EXCEPT
            !.production = <<Production(AUG, <<g.start>>, None, NoAction, FALSE)>>
                           \o g.production,
            !.start = AUG])

(***************************************************************************)
(* GrammarAnalyzer.__argument_semantic_action : mid-rule action lifting.   *)
(***************************************************************************)
MidKeys(p) == {k \in DOMAIN p.action : k < Len(p.body)}

EndKeys(p) == {k \in DOMAIN p.action : k >= Len(p.body)}

RECURSIVE body_with_markers_behind(_, _, _)
\* a body with each marker put behind the position that carries the action
body_with_markers_behind(p, pos, id) ==
  IF pos >= Len(p.body) THEN <<>>
  ELSE IF pos \in DOMAIN p.action
       THEN <<p.body[pos + 1], MarkerName(id)>> \o body_with_markers_behind(p, pos + 1, id + 1)
       ELSE <<p.body[pos + 1]>> \o body_with_markers_behind(p, pos + 1, id)

RECURSIVE LiftedBody(_, _, _)
\* the body of the root: a marker is put before every position that
\* carries an action
LiftedBody(p, pos, id) ==
  IF pos >= Len(p.body) THEN <<>>
  ELSE IF pos \in DOMAIN p.action
       THEN <<MarkerName(id), p.body[pos + 1]>> \o LiftedBody(p, pos + 1, id + 1)
       ELSE <<p.body[pos + 1]>> \o LiftedBody(p, pos + 1, id)

\* the actions of one position, retargeted to a stack offset
Retarget(acts, stack_pos) == Built([i \in 1..Len(acts) |-> <<acts[i][1], stack_pos>>])

RECURSIVE EndActions(_, _, _)
\* the actions at the end of the rule, by increasing key
EndActions(p, keys, stack_pos) ==
  IF keys = {} THEN <<>>
  ELSE LET k == CHOOSE x \in keys : \A y \in keys : x <= y
       IN Retarget(p.action[k], stack_pos) \o EndActions(p, keys \ {k}, stack_pos)

\* the root, had its end-of-rule actions kept the key and the offset of
\* the body before the markers were put in
root_with_old_offset(p, id) ==
  LET acts == EndActions(p, EndKeys(p), Len(p.body))
  IN [Production(p.head, LiftedBody(p, 0, id), p.precedence,
                 IF acts = <<>> THEN NoAction ELSE (Len(p.body) :> acts),
                 p.anchored)
        EXCEPT !.parent = <<>>]

LiftedRoot(p, id) ==
  LET body == LiftedBody(p, 0, id)
      acts == EndActions(p, EndKeys(p), Len(body))
  IN [Production(p.head, body, p.precedence,
                 IF acts = <<>> THEN NoAction ELSE (Len(body) :> acts),
                 p.anchored)
        EXCEPT !.parent = <<>>]

RECURSIVE children_with_original_offset(_, _, _, _, _)
\* the markers, had each kept the position of its action in the body as it
\* was written
children_with_original_offset(p, root, pos, id, stack_pos) ==
  IF pos >= Len(p.body) THEN <<>>
  ELSE IF pos \in DOMAIN p.action
       THEN << [Production(MarkerName(id), <<>>, None,
                           0 :> Retarget(p.action[pos], pos), p.anchored)
                  EXCEPT !.parent = <<root.head, root.body>>] >>
            \o children_with_original_offset(p, root, pos + 1, id + 1, stack_pos)
       ELSE children_with_original_offset(p, root, pos + 1, id, stack_pos)

RECURSIVE LiftedChildren(_, _, _, _, _)
\* one production M@k -> ε per mid-rule position; its action carries the
\* number of body symbols of the root that precede the marker
LiftedChildren(p, root, pos, id, stack_pos) ==
  IF pos >= Len(p.body) THEN <<>>
  ELSE IF pos \in DOMAIN p.action
       THEN << [Production(MarkerName(id), <<>>, None,
                           0 :> Retarget(p.action[pos], stack_pos), p.anchored)
                  EXCEPT !.parent = <<root.head, root.body>>] >>
            \o LiftedChildren(p, root, pos + 1, id + 1, stack_pos + 2)
       ELSE LiftedChildren(p, root, pos + 1, id, stack_pos + 1)

RECURSIVE LiftAll(_, _, _)
LiftAll(prods, id, rules) ==
  IF prods = <<>> THEN rules
  ELSE LET p == Head(prods)
       IN IF MidKeys(p) = {}
          THEN LiftAll(Tail(prods), id, Append(rules, p))
          ELSE LET root == LiftedRoot(p, id)
               IN LiftAll(Tail(prods), id + Cardinality(MidKeys(p)),
                          rules \o <<root>> \o LiftedChildren(p, root, 0, id, 0))

argument_semantic_action(g) ==
  update([g EXCEPT !.production = LiftAll(g.production, 1, <<>>)])

(***************************************************************************)
(* GrammarAnalyzer: nullable flags.  A flag is "True", "False" or None.    *)
(***************************************************************************)
T == "True"

F == "False"

CountIf(s, Test(_)) == Cardinality({i \in 1..Len(s) : Test(s[i])})

RulesOf(g, name) == Built([i \in 1..Len(rule(g, name)) |-> Prod(g, rule(g, name)[i])])

\* GrammarAnalyzer.__build_info : one fresh SymbolInfo per symbol
build_info(g) ==
  Built([n \in Range(g.symbol) |-> [is_epsilon |-> None, has_epsilon |-> None]])

\* the first loop of GrammarAnalyzer.__update_epsilon
InitialEpsilon(g, info) ==
  Built([n \in DOMAIN info |->
     LET rules == RulesOf(g, n)
         is_count == CountIf(rules, LAMBDA p : p.is_epsilon = T)
     IN IF Term(g, n) \/ Len(rules) = 0
        THEN [is_epsilon |-> F, has_epsilon |-> F]
        ELSE IF is_count >= Len(rules)
        THEN [is_epsilon |-> T, has_epsilon |-> T]
        ELSE IF is_count > 0
        THEN [info[n] EXCEPT !.has_epsilon = T]
        ELSE info[n]])

\* GrammarAnalyzer.__update_epsilon_production
update_epsilon_production(g, info, p) ==
  IF p.is_epsilon # None /\ p.has_epsilon # None THEN p
  ELSE IF leftmost_terminal(g, p.body) # None
  THEN [p EXCEPT !.is_epsilon = IF @ = None THEN F ELSE @,
                 !.has_epsilon = IF @ = None THEN F ELSE @]
  ELSE LET is_count == CountIf(p.body, LAMBDA n : info[n].is_epsilon = T)
           isnot_count == CountIf(p.body, LAMBDA n : info[n].is_epsilon = F)
           has_count == CountIf(p.body, LAMBDA n : info[n].has_epsilon = T)
           hasnot_count == CountIf(p.body, LAMBDA n : info[n].has_epsilon = F)
           p1 == IF p.is_epsilon # None THEN p
                 ELSE IF is_count >= Len(p.body)
                 THEN [p EXCEPT !.is_epsilon = T, !.has_epsilon = T]
                 ELSE IF isnot_count > 0 THEN [p EXCEPT !.is_epsilon = F]
                 ELSE p
       IN IF p1.has_epsilon # None THEN p1
          ELSE IF has_count >= Len(p.body) THEN [p1 EXCEPT !.has_epsilon = T]
          ELSE IF hasnot_count > 0 THEN [p1 EXCEPT !.has_epsilon = F]
          ELSE p1

\* __update_epsilon_symbol, had one rule that is not empty been enough to
\* decide that the symbol is not
update_epsilon_symbol_hasty(g, n, i) ==
  IF Term(g, n) \/ (i.is_epsilon # None /\ i.has_epsilon # None) THEN i
  ELSE LET rules == RulesOf(g, n)
           size == Len(rules)
           is_count == CountIf(rules, LAMBDA p : p.is_epsilon = T)
           isnot_count == CountIf(rules, LAMBDA p : p.is_epsilon = F)
           has_count == CountIf(rules, LAMBDA p : p.has_epsilon = T)
           hasnot_count == CountIf(rules, LAMBDA p : p.has_epsilon = F)
           i1 == IF i.is_epsilon # None THEN i
                 ELSE IF is_count >= size THEN [is_epsilon |-> T, has_epsilon |-> T]
                 ELSE IF isnot_count > 0 THEN [is_epsilon |-> F, has_epsilon |-> F]
                 ELSE i
       IN IF i1.has_epsilon # None THEN i1
          ELSE IF has_count > 0 THEN [i1 EXCEPT !.has_epsilon = T]
          ELSE IF hasnot_count >= size THEN [i1 EXCEPT !.has_epsilon = F]
          ELSE i1

\* GrammarAnalyzer.__update_epsilon_symbol
update_epsilon_symbol(g, n, i) ==
  IF Term(g, n) \/ (i.is_epsilon # None /\ i.has_epsilon # None) THEN i
  ELSE LET rules == RulesOf(g, n)
           size == Len(rules)
           is_count == CountIf(rules, LAMBDA p : p.is_epsilon = T)
           isnot_count == CountIf(rules, LAMBDA p : p.is_epsilon = F)
           has_count == CountIf(rules, LAMBDA p : p.has_epsilon = T)
           hasnot_count == CountIf(rules, LAMBDA p : p.has_epsilon = F)
           i1 == IF i.is_epsilon # None THEN i
                 ELSE IF is_count >= size THEN [is_epsilon |-> T, has_epsilon |-> T]
                 ELSE IF isnot_count >= size THEN [is_epsilon |-> F, has_epsilon |-> F]
                 ELSE i
       IN IF i1.has_epsilon # None THEN i1
          ELSE IF has_count > 0 THEN [i1 EXCEPT !.has_epsilon = T]
          ELSE IF hasnot_count >= size THEN [i1 EXCEPT !.has_epsilon = F]
          ELSE i1

\* one round of the while loop of __update_epsilon: a pass over the
\* productions, then a pass over the symbols
EpsilonPass(g, info) ==
  LET g1 == [g EXCEPT !.production =
               Built([k \in 1..Len(g.production) |->
                        update_epsilon_production(g, info, g.production[k])])]
  IN [g |-> g1,
      info |-> Built([n \in DOMAIN info |-> update_epsilon_symbol(g1, n, info[n])])]

RECURSIVE EpsilonLoop(_, _)
\* the while loop of __update_epsilon: a pass over the productions, then a
\* pass over the symbols, until a round changes nothing
EpsilonLoop(g, info) ==
  LET g1 == [g EXCEPT !.production =
               Built([k \in 1..Len(g.production) |->
                        update_epsilon_production(g, info, g.production[k])])]
      info1 == Built([n \in DOMAIN info |-> update_epsilon_symbol(g1, n, info[n])])
  IN IF g1 = g /\ info1 = info THEN [g |-> g, info |-> info]
     ELSE EpsilonLoop(g1, info1)

update_epsilon(g, info) == EpsilonLoop(g, InitialEpsilon(g, info))

(***************************************************************************)
(* GrammarAnalyzer: FIRST, FOLLOW and SELECT.                              *)
(***************************************************************************)
\* Symbol.term of a body symbol or of a lookahead symbol
IsTerm(g, n) == n \in g.terminal \cup {EOF, PSHARP}

RECURSIVE first_set_without_epsilon(_, _, _)
\* __calculate_first_set, had it returned nothing for the empty vector
first_set_without_epsilon(g, FIRST, vector) ==
  IF vector = <<>> THEN {}
  ELSE LET s == Head(vector)
       IN IF IsTerm(g, s) THEN {s}
          ELSE (FIRST[s] \ {EPSILON})
               \cup (IF EPSILON \in FIRST[s]
                     THEN first_set_without_epsilon(g, FIRST, Tail(vector))
                     ELSE {})

RECURSIVE calculate_first_set(_, _, _)
\* GrammarAnalyzer.__calculate_first_set
calculate_first_set(g, FIRST, vector) ==
  IF vector = <<>> THEN {EPSILON}
  ELSE LET s == Head(vector)
       IN IF IsTerm(g, s) THEN {s}
          ELSE (FIRST[s] \ {EPSILON})
               \cup (IF EPSILON \in FIRST[s]
                     THEN calculate_first_set(g, FIRST, Tail(vector))
                     ELSE {})

\* the nonterminals in the order of GrammarAnalyzer.nonterminal
NonterminalSeq(g) == SelectSeq(g.symbol, LAMBDA n : ~Term(g, n))

RECURSIVE Flatten(_)
Flatten(ss) == IF ss = <<>> THEN <<>> ELSE Head(ss) \o Flatten(Tail(ss))

\* the rules in the order the FIRST loop visits them
FirstVisitOrder(g) ==
  LET nt == NonterminalSeq(g)
  IN Flatten(Built([k \in 1..Len(nt) |-> rule(g, nt[k])]))

RECURSIVE FirstPass(_, _, _)
FirstPass(g, FIRST, todo) ==
  IF todo = <<>> THEN FIRST
  ELSE LET p == Prod(g, Head(todo))
           next == [FIRST EXCEPT ![p.head] = @ \cup calculate_first_set(g, FIRST, p.body)]
       IN After(next, FirstPass(g, next, Tail(todo)))

RECURSIVE FirstLoop(_, _)
FirstLoop(g, FIRST) ==
  LET next == FirstPass(g, FIRST, FirstVisitOrder(g))
  IN IF next = FIRST THEN FIRST ELSE FirstLoop(g, next)

\* the sets __update_first_set starts its loop from
InitialFirst(g) ==
  Built([n \in Range(g.symbol) \cup {EOF, PSHARP} |->
           IF n \in {EOF, PSHARP} \/ Term(g, n) THEN {n} ELSE {}])

\* GrammarAnalyzer.__update_first_set
update_first_set(g) ==
  FirstLoop(g, Built([n \in Range(g.symbol) \cup {EOF, PSHARP} |->
                        IF n \in {EOF, PSHARP} \/ Term(g, n) THEN {n} ELSE {}]))

\* one body position of the FOLLOW loop
FollowAt(g, FIRST, FOLLOW, p, i) ==
  LET symbol == p.body[i]
      first == calculate_first_set(g, FIRST, SubSeq(p.body, i + 1, Len(p.body)))
      f1 == [FOLLOW EXCEPT ![symbol] = @ \cup (first \ {EPSILON})]
  IN IF Term(g, symbol) THEN FOLLOW
     ELSE IF EPSILON \in first \/ i = Len(p.body)
     THEN [f1 EXCEPT ![symbol] = @ \cup f1[p.head]]
     ELSE f1

RECURSIVE FollowPass(_, _, _, _, _)
FollowPass(g, FIRST, FOLLOW, k, i) ==
  IF k > Len(g.production) THEN FOLLOW
  ELSE IF i > Len(g.production[k].body) THEN FollowPass(g, FIRST, FOLLOW, k + 1, 1)
  ELSE LET next == FollowAt(g, FIRST, FOLLOW, g.production[k], i)
       IN After(next, FollowPass(g, FIRST, next, k, i + 1))

RECURSIVE FollowLoop(_, _, _)
FollowLoop(g, FIRST, FOLLOW) ==
  LET next == FollowPass(g, FIRST, FOLLOW, 1, 1)
  IN IF next = FOLLOW THEN FOLLOW ELSE FollowLoop(g, FIRST, next)

\* the sets __update_follow_set starts its loop from
InitialFollow(g) ==
  Built([n \in Nonterminals(g) \cup {g.start} |-> IF n = g.start THEN {EOF} ELSE {}])

\* GrammarAnalyzer.__update_follow_set
update_follow_set(g, FIRST) ==
  FollowLoop(g, FIRST,
             Built([n \in Nonterminals(g) \cup {g.start} |->
                      IF n = g.start THEN {EOF} ELSE {}]))

\* GrammarAnalyzer.__update_select_set ; key k is production index k - 1
\* __update_select_set, had it left FOLLOW out for a nullable body
select_set_without_follow(g, FIRST, FOLLOW) ==
  Built([k \in 1..Len(g.production) |->
           calculate_first_set(g, FIRST, g.production[k].body) \ {EPSILON}])

update_select_set(g, FIRST, FOLLOW) ==
  Built([k \in 1..Len(g.production) |->
           LET first == calculate_first_set(g, FIRST, g.production[k].body)
           IN IF EPSILON \notin first THEN first
              ELSE (first \ {EPSILON}) \cup FOLLOW[g.production[k].head]])

\* GrammarAnalyzer.process : lifting, flags, FIRST, FOLLOW, SELECT
\* the mismatches __check_integrity reports for one nonterminal
IntegrityErrors(first, i) ==
  IF EPSILON \in first
  THEN IF Cardinality(first) = 1
       THEN (IF i.is_epsilon # T THEN 1 ELSE 0) + (IF i.has_epsilon # T THEN 1 ELSE 0)
       ELSE (IF i.is_epsilon = T THEN 1 ELSE 0) + (IF i.has_epsilon # T THEN 1 ELSE 0)
  ELSE (IF i.is_epsilon = T THEN 1 ELSE 0) + (IF i.has_epsilon = T THEN 1 ELSE 0)

RECURSIVE IntegritySum(_, _, _, _)
IntegritySum(g, info, FIRST, names) ==
  IF names = <<>> THEN 0
  ELSE (IF Term(g, Head(names)) THEN 0
        ELSE IntegrityErrors(FIRST[Head(names)], info[Head(names)]))
       + IntegritySum(g, info, FIRST, Tail(names))

\* GrammarAnalyzer.__check_integrity : the number of mismatches between the
\* nullable flags and the FIRST sets; each is written to the log
check_integrity(g, info, FIRST) == IntegritySum(g, info, FIRST, NameSeq(DOMAIN info))

\* GrammarAnalyzer.process ; the count of __check_integrity is dropped by
\* process, it is kept here as integrity
ga_process(g) ==
  LET g1 == argument_semantic_action(g)
      e == update_epsilon(g1, build_info(g1))
      FIRST == update_first_set(e.g)
      FOLLOW == update_follow_set(e.g, FIRST)
  IN [g |-> e.g, info |-> e.info, FIRST |-> FIRST, FOLLOW |-> FOLLOW,
      SELECT |-> update_select_set(e.g, FIRST, FOLLOW),
      integrity |-> check_integrity(e.g, e.info, FIRST)]

(***************************************************************************)
(* GrammarAnalyzer.check_grammar and the searches it uses.                 *)
(***************************************************************************)
RECURSIVE ReachableFrom(_, _)
ReachableFrom(g, seen) ==
  LET more == seen \cup {n \in Range(g.symbol) :
                           \E k \in 1..Len(g.production) :
                              /\ g.production[k].head \in seen
                              /\ Contains(g.production[k].body, n)}
  IN IF more = seen THEN seen ELSE ReachableFrom(g, more)

\* GrammarAnalyzer.find_reachable
find_reachable(g, parents) == ReachableFrom(g, parents)

\* GrammarAnalyzer.find_undefined_symbol
find_undefined_symbol(g) ==
  {n \in Range(g.symbol) : n \notin g.terminal /\ rule(g, n) = <<>>}

RECURSIVE TerminatedFrom(_, _)
TerminatedFrom(g, terminated) ==
  LET more == terminated \cup
                {n \in Range(g.symbol) :
                   \E k \in 1..Len(g.production) :
                      /\ g.production[k].head = n
                      /\ Range(g.production[k].body) \subseteq terminated}
  IN IF more = terminated THEN terminated ELSE TerminatedFrom(g, more)

\* GrammarAnalyzer.find_terminated_symbol
find_terminated_symbol(g) ==
  TerminatedFrom(g, {n \in Range(g.symbol) : Term(g, n)})

\* GrammarAnalyzer.check_grammar : the number of errors
check_grammar(g) ==
  (IF Len(g.production) = 0 THEN 1 ELSE 0)
  + Cardinality(find_undefined_symbol(g))
  + (IF g.start = None THEN 1
     ELSE (IF Term(g, g.start) THEN 1 ELSE 0)
          + (IF g.start \in find_terminated_symbol(g) THEN 0 ELSE 1))

(***************************************************************************)
(* RulePtr and LRItemSet.  An item is [rule, index, lookahead]: the        *)
(* production's index, the dot, and a terminal name or None.               *)
(***************************************************************************)
RulePtr(r, index, lookahead) == [rule |-> r, index |-> index, lookahead |-> lookahead]

\* RulePtr.next
NextOf(g, rp) ==
  IF rp.index >= Len(Prod(g, rp.rule).body) THEN None
  ELSE Prod(g, rp.rule).body[rp.index + 1]

\* RulePtr.satisfied
satisfied(g, rp) == rp.index >= Len(Prod(g, rp.rule).body)

\* RulePtr.advance
advance(rp) == [rp EXCEPT !.index = @ + 1]

\* RulePtr.after_list(1)
after_list(g, rp) ==
  SubSeq(Prod(g, rp.rule).body, rp.index + 2, Len(Prod(g, rp.rule).body))

RECURSIVE VectorLt(_, _)
\* Vector.__lt__ : list comparison, element by element, by name
VectorLt(a, b) ==
  IF b = <<>> THEN FALSE
  ELSE IF a = <<>> THEN TRUE
  ELSE IF Head(a) # Head(b) THEN SymbolLt(Head(a), Head(b))
  ELSE VectorLt(Tail(a), Tail(b))

\* Production.__lt__ : by head, then by body
ProductionLt(p, q) ==
  IF p.head # q.head THEN SymbolLt(p.head, q.head) ELSE VectorLt(p.body, q.body)

\* RulePtr.__lt__ : by dot, then by repr(lookahead), then by production
RulePtrLt(g, a, b) ==
  IF a.index # b.index THEN a.index < b.index
  ELSE IF a.lookahead # b.lookahead
       THEN ReprRank(a.lookahead) < ReprRank(b.lookahead)
  ELSE ProductionLt(Prod(g, a.rule), Prod(g, b.rule))

RECURSIVE SortItems(_, _)
SortItems(g, items) ==
  IF items = {} THEN <<>>
  ELSE LET m == CHOOSE x \in items : \A y \in items \ {x} : RulePtrLt(g, x, y)
       IN <<m>> \o SortItems(g, items \ {m})

\* LRItemSet.create_kernel : the sorted tuple of the kernel source
create_kernel(g, kernel_source) == SortItems(g, Range(kernel_source))

\* LRItemSet.find_expecting_symbol : the symbols after a dot, in closure order
RECURSIVE ExpectingFrom(_, _, _)
ExpectingFrom(g, closure, acc) ==
  IF closure = <<>> THEN acc
  ELSE ExpectingFrom(g, Tail(closure),
                     IF NextOf(g, Head(closure)) = None THEN acc
                     ELSE AppendNew(acc, NextOf(g, Head(closure))))

find_expecting_symbol(g, cc) == ExpectingFrom(g, cc.closure, <<>>)

\* the items a closure step adds for item A: every rule of the symbol after
\* the dot, with every terminal of FIRST(after, lookahead) (LR(1)) or with
\* no lookahead (LR(0))
ClosureItems(g, FIRST, A, lr1) ==
  LET B == NextOf(g, A)
      after == after_list(g, A) \o (IF A.lookahead # None THEN <<A.lookahead>> ELSE <<>>)
      first == IF lr1 THEN NameSeq(calculate_first_set(g, FIRST, after)) ELSE <<None>>
      rules == rule(g, B)
  IN IF B = None \/ Term(g, B) THEN <<>>
     ELSE Flatten(Built([k \in 1..Len(rules) |->
                           Built([j \in 1..Len(first) |-> RulePtr(rules[k], 0, first[j])])]))

RECURSIVE ClosureLoop(_, _, _, _, _)
ClosureLoop(g, FIRST, items, top, lr1) ==
  IF top > Len(items) THEN items
  ELSE ClosureLoop(g, FIRST,
                   AppendAllNew(items, ClosureItems(g, FIRST, items[top], lr1)),
                   top + 1, lr1)

\* LR1Analyzer.closure (lr1) and LR0Analyzer.closure, LALRAnalyzer._LR0_closure
closure(g, FIRST, kernel, lr1) ==
  [kernel |-> kernel, closure |-> ClosureLoop(g, FIRST, kernel, 1, lr1)]

\* LR1Analyzer.__try_goto : the advanced items, before sorting
try_goto(g, cc, X) ==
  LET hit == SelectSeq(cc.closure, LAMBDA rp : NextOf(g, rp) = X)
  IN Built([k \in 1..Len(hit) |-> advance(hit[k])])

(***************************************************************************)
(* The state registry of an analyzer.  State uuid u is state[u + 1];       *)
(* link[u + 1] and backlink[u + 1] are the maps of state u (an empty map   *)
(* stands for a missing key); pending is the BFS queue of uuids.           *)
(***************************************************************************)
NoLink == [n \in {} |-> 0]

EmptyAnalyzer == [state |-> <<>>, pending |-> <<>>, link |-> <<>>, backlink |-> <<>>]

\* a registry that knows no state by its kernel
lookup_nothing(an, kernel) == -1

\* the uuid of the registered state with this kernel, or -1
Lookup(an, kernel) ==
  IF \E i \in 1..Len(an.state) : an.state[i].kernel = kernel
  THEN (CHOOSE i \in 1..Len(an.state) : an.state[i].kernel = kernel) - 1
  ELSE -1

\* LR1Analyzer.append (the caller has checked that the name is new)
append(an, cc) ==
  [an EXCEPT !.state = Append(@, cc),
             !.pending = Append(@, Len(an.state)),
             !.link = Append(@, NoLink),
             !.backlink = Append(@, NoLink)]

\* LR1Analyzer.__create_link : the first writer of a key wins
create_link(an, c1, c2, ss) ==
  [an EXCEPT
     !.link[c1 + 1] = IF ss \in DOMAIN @ THEN @ ELSE @ @@ (ss :> c2),
     !.backlink[c2 + 1] = IF ss \in DOMAIN @ THEN @ ELSE @ @@ (ss :> c1)]

\* one round of the loop of __update_state, for one expected symbol
UpdateSymbol(g, FIRST, an, uuid, symbol, lr1) ==
  LET kernel == create_kernel(g, try_goto(g, an.state[uuid + 1], symbol))
      found == Lookup(an, kernel)
  IN IF found >= 0 THEN create_link(an, uuid, found, symbol)
     ELSE create_link(append(an, closure(g, FIRST, kernel, lr1)),
                      uuid, Len(an.state), symbol)

RECURSIVE UpdateSymbols(_, _, _, _, _, _)
UpdateSymbols(g, FIRST, an, uuid, symbols, lr1) ==
  IF symbols = <<>> THEN an
  ELSE UpdateSymbols(g, FIRST, UpdateSymbol(g, FIRST, an, uuid, Head(symbols), lr1),
                     uuid, Tail(symbols), lr1)

\* pending.popleft() followed by LR1Analyzer.__update_state
\* (LALRAnalyzer.__LR0_update_state when lr1 is FALSE)
update_state(g, FIRST, an, lr1) ==
  LET uuid == Head(an.pending)
  IN UpdateSymbols(g, FIRST, [an EXCEPT !.pending = Tail(@)], uuid,
                   find_expecting_symbol(g, an.state[uuid + 1]), lr1)

\* the head of __build_states: the closure of [S^ -> . start, lookahead] is
\* state 0; LR1Analyzer and its subclasses start from $, the LR(0) skeleton
\* of LALRAnalyzer from no lookahead
initial_state(g, FIRST, lr1, lookahead) ==
  append(EmptyAnalyzer, closure(g, FIRST, <<RulePtr(0, 0, lookahead)>>, lr1))

RECURSIVE build_states(_, _, _, _)
\* LR1Analyzer.__build_states from a registry with pending states
build_states(g, FIRST, an, lr1) ==
  IF an.pending = <<>> THEN an
  ELSE build_states(g, FIRST, update_state(g, FIRST, an, lr1), lr1)

(***************************************************************************)
(* ActionName, Action and LRTable.  A table is the list of its rows; a row *)
(* maps the names of its present cells to sets of actions.  An action is   *)
(* [name, target, rule]; two actions are equal when name and target are.   *)
(***************************************************************************)
SHIFT == 0

REDUCE == 1

ACCEPT == 2

ERROR == 3

Action(name, target, r) == [name |-> name, target |-> target, rule |-> r]

NoRow == [n \in {} |-> {}]

\* set.add under Action.__eq__ : an equal member keeps its place
CellAdd(cell, a) ==
  IF \E b \in cell : b.name = a.name /\ b.target = a.target THEN cell
  ELSE cell \cup {a}

\* LRTable.add
add(tab, row, col, a) ==
  LET rows == IF row + 1 <= Len(tab) THEN tab
              ELSE tab \o Built([k \in 1..(row + 1 - Len(tab)) |-> NoRow])
      rr == rows[row + 1]
  IN [rows EXCEPT ![row + 1] =
        IF col \in DOMAIN rr THEN [rr EXCEPT ![col] = CellAdd(@, a)]
        ELSE rr @@ (col :> {a})]

RECURSIVE AddAll(_, _, _, _)
AddAll(tab, row, cols, a) ==
  IF cols = <<>> THEN tab
  ELSE LET next == add(tab, row, Head(cols), a)
       IN After(next, AddAll(next, row, Tail(cols), a))

\* the columns a satisfied item of a rule other than S^ -> start is entered
\* under: its lookahead (LR1Analyzer.__build_table), every declared terminal
\* and $ (LR0Analyzer.build_table), FOLLOW of the head (SLRAnalyzer.build_table)
\* the columns of a Reduce, had LR1Analyzer reduced under FOLLOW as
\* SLRAnalyzer does
reduce_under_follow(g, FOLLOW, algo, rp) ==
  IF algo = "lr0" THEN NameSeq(g.terminal) \o <<EOF>>
  ELSE NameSeq(FOLLOW[Prod(g, rp.rule).head])

ReduceColumns(g, FOLLOW, algo, rp) ==
  IF algo = "lr0" THEN NameSeq(g.terminal) \o <<EOF>>
  ELSE IF algo = "slr" THEN NameSeq(FOLLOW[Prod(g, rp.rule).head])
  ELSE <<rp.lookahead>>

\* the body of the loop over state.closure in build_table
TableItem(g, FOLLOW, algo, an, tab, uuid, rp) ==
  IF satisfied(g, rp)
  THEN IF Prod(g, rp.rule).head = AUG
       THEN IF Len(Prod(g, rp.rule).body) = 1
            THEN add(tab, uuid, IF algo \in {"lr0", "slr"} THEN EOF ELSE rp.lookahead,
                     Action(ACCEPT, 0, rp.rule))
            ELSE tab
       ELSE AddAll(tab, uuid, ReduceColumns(g, FOLLOW, algo, rp),
                   Action(REDUCE, rp.rule, rp.rule))
  ELSE IF NextOf(g, rp) \in DOMAIN an.link[uuid + 1]
       THEN add(tab, uuid, NextOf(g, rp),
                Action(SHIFT, an.link[uuid + 1][NextOf(g, rp)], rp.rule))
       ELSE tab

RECURSIVE TableItems(_, _, _, _, _, _, _)
TableItems(g, FOLLOW, algo, an, tab, uuid, items) ==
  IF items = <<>> THEN tab
  ELSE LET next == TableItem(g, FOLLOW, algo, an, tab, uuid, Head(items))
       IN After(next, TableItems(g, FOLLOW, algo, an, next, uuid, Tail(items)))

RECURSIVE TableStates(_, _, _, _, _, _)
TableStates(g, FOLLOW, algo, an, tab, uuid) ==
  IF uuid >= Len(an.state) THEN tab
  ELSE LET next == TableItems(g, FOLLOW, algo, an, tab, uuid,
                                an.state[uuid + 1].closure)
       IN After(next, TableStates(g, FOLLOW, algo, an, next, uuid + 1))

\* LR1Analyzer.__build_table, LR0Analyzer.build_table, SLRAnalyzer.build_table
build_table(g, FOLLOW, algo, an) == TableStates(g, FOLLOW, algo, an, <<>>, 0)

(***************************************************************************)
(* LALRAnalyzer: spontaneous lookaheads, propagation routes, propagation.  *)
(*   lookahead[u + 1][k]  LALRItemSet.lookahead[k - 1] of state u          *)
(*   route[u + 1][k]      route[u][k - 1], a list of <<uuid, kernel id>>   *)
(***************************************************************************)
\* the position (1-based) of the kernel item of ns with the core of rp
KernelIndex(ns, rp) ==
  CHOOSE j \in 1..Len(ns.kernel) :
     ns.kernel[j].rule = rp.rule /\ ns.kernel[j].index = rp.index

\* the body of the loop over closure.closure in _LALR_propagate_state
PropagateItem(g, an, lr, uuid, key, rp) ==
  LET target == an.link[uuid + 1][NextOf(g, rp)]
      next_found == KernelIndex(an.state[target + 1], advance(rp))
  IN IF satisfied(g, rp) THEN lr
     ELSE IF rp.lookahead = PSHARP
     THEN [lr EXCEPT !.route[uuid + 1][key] = Append(@, <<target, next_found>>)]
     ELSE [lr EXCEPT !.lookahead[target + 1][next_found] = @ \cup {rp.lookahead}]

RECURSIVE PropagateItems(_, _, _, _, _, _)
PropagateItems(g, an, lr, uuid, key, items) ==
  IF items = <<>> THEN lr
  ELSE LET next == PropagateItem(g, an, lr, uuid, key, Head(items))
       IN After(next, PropagateItems(g, an, next, uuid, key, Tail(items)))

RECURSIVE PropagateKernels(_, _, _, _, _, _)
PropagateKernels(g, FIRST, an, lr, uuid, key) ==
  IF key > Len(an.state[uuid + 1].kernel) THEN lr
  ELSE LET k == an.state[uuid + 1].kernel[key]
           J == closure(g, FIRST, <<RulePtr(k.rule, k.index, PSHARP)>>, TRUE)
           next == PropagateItems(g, an, lr, uuid, key, J.closure)
       IN After(next, PropagateKernels(g, FIRST, an, next, uuid, key + 1))

\* LALRAnalyzer._LALR_propagate_state
LALR_propagate_state(g, FIRST, an, lr, uuid) ==
  LET lr1 == PropagateKernels(g, FIRST, an, lr, uuid, 1)
  IN IF uuid = 0 THEN [lr1 EXCEPT !.lookahead[1][1] = @ \cup {EOF}] ELSE lr1

RECURSIVE RouteStates(_, _, _, _, _)
RouteStates(g, FIRST, an, lr, uuid) ==
  IF uuid >= Len(an.state) THEN lr
  ELSE LET next == LALR_propagate_state(g, FIRST, an, lr, uuid)
       IN After(next, RouteStates(g, FIRST, an, next, uuid + 1))

\* LALRItemSet.shrink on every state
shrink(an) ==
  [an EXCEPT !.state = Built([u \in 1..Len(an.state) |->
                                [an.state[u] EXCEPT !.closure = an.state[u].kernel]])]

\* LALRAnalyzer.__build_propagate_route, then the head of __build_lookahead:
\* every state is dirty
build_propagate_route(g, FIRST, an) ==
  RouteStates(g, FIRST, an,
              [lookahead |-> Built([u \in 1..Len(an.state) |->
                                      Built([k \in 1..Len(an.state[u].kernel) |-> {}])]),
               route |-> Built([u \in 1..Len(an.state) |->
                                  Built([k \in 1..Len(an.state[u].kernel) |-> <<>>])]),
               dirty |-> 0..(Len(an.state) - 1)],
              0)

\* the state has a key in LALRAnalyzer.route
HasRoute(lr, uuid) == \E k \in 1..Len(lr.route[uuid + 1]) : lr.route[uuid + 1][k] # <<>>

RECURSIVE PropagateRoute(_, _, _)
\* the loop over route[key]: the lookaheads of a kernel item are added to
\* the kernel items it propagates to, which become dirty
PropagateRoute(lr, from, todo) ==
  IF todo = <<>> THEN lr
  ELSE LET to == Head(todo)
           new == from \ lr.lookahead[to[1] + 1][to[2]]
           next == IF new = {} THEN lr
                   ELSE [lr EXCEPT !.lookahead[to[1] + 1][to[2]] = @ \cup new,
                                   !.dirty = @ \cup {to[1]}]
       IN After(next, PropagateRoute(next, from, Tail(todo)))

RECURSIVE PropagateKeys(_, _, _)
PropagateKeys(lr, uuid, key) ==
  IF key > Len(lr.route[uuid + 1]) THEN lr
  ELSE LET next == PropagateRoute(lr, lr.lookahead[uuid + 1][key],
                                  lr.route[uuid + 1][key])
       IN After(next, PropagateKeys(next, uuid, key + 1))

\* LALRAnalyzer.__propagate_state
propagate_state(lr, uuid) ==
  IF ~HasRoute(lr, uuid) THEN [lr EXCEPT !.dirty = @ \ {uuid}]
  ELSE [PropagateKeys(lr, uuid, 1) EXCEPT !.dirty = @ \ {uuid}]

RECURSIVE PropagateRound(_, _)
\* one round of the loop of __build_lookahead over a copy of the dirty set
PropagateRound(lr, todo) ==
  IF todo = {} THEN lr
  ELSE LET u == CHOOSE x \in todo : \A y \in todo : x <= y
           next == propagate_state(lr, u)
       IN After(next, PropagateRound(next, todo \ {u}))

RECURSIVE build_lookahead(_)
\* LALRAnalyzer.__build_lookahead : rounds until one adds no lookahead
build_lookahead(lr) ==
  LET next == PropagateRound(lr, lr.dirty)
  IN IF next.lookahead = lr.lookahead THEN next ELSE build_lookahead(next)

\* the kernel of the LR(1) state made from LALR state u: every kernel item
\* with every lookahead of its set
LR1Kernel(g, an, lr, u) ==
  SortItems(g, {RulePtr(an.state[u].kernel[k].rule, an.state[u].kernel[k].index, s) :
                  <<k, s>> \in {ks \in (1..Len(an.state[u].kernel))
                                        \X UNION Range(lr.lookahead[u]) :
                                  ks[2] \in lr.lookahead[u][ks[1]]}})

RECURSIVE LR1States(_, _, _, _, _, _)
\* the loop of LALRAnalyzer.__build_LR1_state; la.append raises KeyError
\* when a state with the same kernel is already registered
LR1States(g, FIRST, an, lr, la, u) ==
  IF u > Len(an.state) THEN [ok |-> TRUE, la |-> la]
  ELSE LET kernel == LR1Kernel(g, an, lr, u)
       IN IF Lookup(la, kernel) >= 0 THEN [ok |-> FALSE, la |-> la]
          ELSE LR1States(g, FIRST, an, lr,
                         append(la, closure(g, FIRST, kernel, TRUE)), u + 1)

\* LALRAnalyzer.__build_LR1_state : the LR(1) analyzer gets one state per
\* LALR state and shares link and backlink
build_LR1_state(g, FIRST, an, lr) ==
  LET r == LR1States(g, FIRST, an, lr, EmptyAnalyzer, 1)
  IN [ok |-> r.ok,
      la |-> [r.la EXCEPT !.link = an.link, !.backlink = an.backlink]]

(***************************************************************************)
(* ConflictSolver.  A resolution is [action, warned, crashed]: the action  *)
(* kept so far, the number of warnings written, and whether writing a      *)
(* warning raised TypeError (the rule has no anchor line to format).       *)
(***************************************************************************)
\* ConflictSolver.warning_rule
warning_rule(g, r, res) ==
  IF res.crashed THEN res
  ELSE IF Prod(g, r).anchored THEN [res EXCEPT !.warned = @ + 1]
  ELSE [res EXCEPT !.crashed = TRUE]

\* ConflictSolver._pick_shift
pick_shift(g, action1, action2, warning, res) ==
  IF action1.name = SHIFT
  THEN [(IF warning THEN warning_rule(g, action2.rule, res) ELSE res)
          EXCEPT !.action = action1]
  ELSE IF action2.name = SHIFT
  THEN [(IF warning THEN warning_rule(g, action2.rule, res) ELSE res)
          EXCEPT !.action = action2]
  ELSE [res EXCEPT !.action = action1]

\* a pick among equal precedences that keeps the Shift where
\* _pick_reduce keeps the Reduce
reduce_yields_to_shift(g, action1, action2, warning, res) ==
  IF action1.name = SHIFT THEN [res EXCEPT !.action = action1]
  ELSE IF action2.name = SHIFT THEN [res EXCEPT !.action = action2]
  ELSE [res EXCEPT !.action = action1]

\* ConflictSolver._pick_reduce
pick_reduce(g, action1, action2, warning, res) ==
  IF action1.name = REDUCE
  THEN [(IF warning THEN warning_rule(g, action2.rule, res) ELSE res)
          EXCEPT !.action = action1]
  ELSE IF action2.name = REDUCE
  THEN [(IF warning THEN warning_rule(g, action2.rule, res) ELSE res)
          EXCEPT !.action = action2]
  ELSE [res EXCEPT !.action = action1]

\* ConflictSolver._compare_rule ; warning_conflict warns on rule1
compare_rule(g, action1, action2, res) ==
  LET rule1 == Prod(g, action1.rule)
      rule2 == Prod(g, action2.rule)
      n1 == rule1.precedence
      n2 == rule2.precedence
  IN IF n1 = None
     THEN IF n2 = None
          THEN pick_shift(g, action1, action2, TRUE, warning_rule(g, action1.rule, res))
          ELSE [warning_rule(g, action1.rule, res) EXCEPT !.action = action2]
     ELSE IF n2 = None
     THEN [warning_rule(g, action1.rule, res) EXCEPT !.action = action1]
     ELSE IF n1 \notin DOMAIN g.precedence
     THEN [warning_rule(g, action1.rule, res) EXCEPT !.action = action1]
     ELSE IF n2 \notin DOMAIN g.precedence
     THEN [warning_rule(g, action2.rule, res) EXCEPT !.action = action1]
     ELSE IF g.precedence[n1] > g.precedence[n2] THEN [res EXCEPT !.action = action1]
     ELSE IF g.precedence[n1] < g.precedence[n2] THEN [res EXCEPT !.action = action2]
     ELSE IF g.assoc[n1] = "left" THEN pick_reduce(g, action1, action2, FALSE, res)
     ELSE IF g.assoc[n1] = "right" THEN pick_shift(g, action1, action2, FALSE, res)
     ELSE [res EXCEPT !.action = action1]

ActionBefore(a, b) == a.name < b.name \/ (a.name = b.name /\ a.target < b.target)

RECURSIVE Ascending(_)
Ascending(cell) ==
  IF cell = {} THEN <<>>
  ELSE LET a == CHOOSE x \in cell : \A y \in cell \ {x} : ActionBefore(x, y)
       IN <<a>> \o Ascending(cell \ {a})

Without(s, i) == SubSeq(s, 1, i - 1) \o SubSeq(s, i + 1, Len(s))

RECURSIVE Permuted(_, _)
\* the permutation of s numbered k in the factorial number system
Permuted(s, k) ==
  IF s = <<>> THEN <<>>
  ELSE LET i == (k % Len(s)) + 1
       IN <<s[i]>> \o Permuted(Without(s, i), k \div Len(s))

\* the order in which iterating a cell yields its actions.  The interpreter
\* fixes it from the hashes of (name, target) and the history of the set; the
\* model knows it as a permutation number, the same for every cell of a run.
CellSeq(cell, order) == Permuted(Ascending(cell), order)

RECURSIVE FoldActions(_, _, _)
FoldActions(g, actions, res) ==
  IF actions = <<>> \/ res.crashed THEN res
  ELSE FoldActions(g, Tail(actions), compare_rule(g, res.action, Head(actions), res))

\* ConflictSolver._solve_conflict on a cell with more than one action: the
\* fold over the actions; the cell is then cleared and the survivor added
solve_conflict(g, cell, order, res) ==
  LET actions == CellSeq(cell, order)
  IN FoldActions(g, Tail(actions), [res EXCEPT !.action = Head(actions)])

RECURSIVE SolveCells(_, _, _, _, _)
\* the loop over the keys of one row; st is [tab, warned, crashed]
SolveCells(g, st, row, cols, order) ==
  IF cols = <<>> \/ st.crashed THEN st
  ELSE LET cell == st.tab[row][Head(cols)]
           res == solve_conflict(g, cell, order,
                                 [action |-> None, warned |-> st.warned, crashed |-> FALSE])
       IN IF Cardinality(cell) <= 1 THEN SolveCells(g, st, row, Tail(cols), order)
          ELSE IF res.crashed THEN [st EXCEPT !.warned = res.warned, !.crashed = TRUE]
          ELSE SolveCells(g,
                          [st EXCEPT !.tab[row][Head(cols)] = {res.action},
                                     !.warned = res.warned],
                          row, Tail(cols), order)

RECURSIVE SolveRows(_, _, _, _)
SolveRows(g, st, row, order) ==
  IF row > Len(st.tab) \/ st.crashed THEN st
  ELSE SolveRows(g, SolveCells(g, st, row, NameSeq(DOMAIN st.tab[row]), order),
                 row + 1, order)

\* process, had it returned from inside the loop over the rows
process_first_row(g, tab, order) ==
  SolveCells(g, [tab |-> tab, warned |-> 0, crashed |-> FALSE], 1,
             NameSeq(DOMAIN tab[1]), order)

\* ConflictSolver.process
ConflictSolver_process(g, tab, order) ==
  SolveRows(g, [tab |-> tab, warned |-> 0, crashed |-> FALSE], 1, order)

(***************************************************************************)
(* The grammars of the model, as GrammarLoader leaves them: the rules in   *)
(* source order, literals registered as terminals, %left / %right /        *)
(* %nonassoc lines numbered from level 0, the head of the first rule as    *)
(* start symbol, and Grammar.update applied.                               *)
(***************************************************************************)
\* a rule written with at least one token (it has an anchor line)
Rule(head, body) == Production(head, body, None, NoAction, TRUE)

\* an alternative written with no token at all: no anchor is recorded
EmptyRule(head) == Production(head, <<>>, None, NoAction, FALSE)

\* GrammarLoader._add_rule with ACTION tokens: the action is keyed by the
\* number of body symbols before it
ActionRule(head, body, action) == Production(head, body, None, action, TRUE)

Literals(prods) ==
  {n \in UNION {Range(prods[k].body) : k \in 1..Len(prods)} : is_literal(n)}

RECURSIVE push_precedence(_, _, _)
\* GrammarLoader._process_macro on the precedence lines, in order
push_precedence(g, decls, level) ==
  IF decls = <<>> THEN g
  ELSE push_precedence(
         [g EXCEPT
            !.precedence = [n \in Head(decls).names |-> level] @@ @,
            !.assoc = [n \in Head(decls).names |-> Head(decls).assoc] @@ @],
         Tail(decls), level + 1)

\* GrammarLoader._scan_grammar
load(prods, tokens, decls) ==
  update(push_precedence(
           [production |-> prods, terminal |-> tokens \cup Literals(prods),
            precedence |-> [n \in {} |-> 0], assoc |-> [n \in {} |-> ""],
            start |-> prods[1].head, symbol |-> <<>>],
           decls, 0))

ProdMenu ==
  << Rule("S", <<"S", "'a'", "S">>),
     Rule("S", <<"A", "'a'">>),
     Rule("S", <<"A", "A">>),
     Rule("S", <<"'b'">>),
     Rule("S", <<>>),
     ActionRule("S", <<"'b'", "A">>, (1 :> << <<"t1", 1>> >>) @@ (2 :> << <<"t2", 2>> >>)),
     EmptyRule("A"),
     Rule("A", <<"'b'">>),
     Rule("A", <<"A", "S">>),
     Rule("A", <<"S">>) >>

PrecMenu ==
  { <<>>,
    << [assoc |-> "left", names |-> {"'a'"}] >>,
    << [assoc |-> "right", names |-> {"'a'"}] >>,
    << [assoc |-> "nonassoc", names |-> {"'a'"}], [assoc |-> "left", names |-> {"'b'"}] >> }

RECURSIVE Pick(_, _)
\* the rules of the menu with index in I, in menu order
Pick(I, k) ==
  IF k > Len(ProdMenu) THEN <<>>
  ELSE (IF k \in I THEN <<ProdMenu[k]>> ELSE <<>>) \o Pick(I, k + 1)

Family ==
  {load(Pick(I, 1), {}, d) :
     I \in {J \in SUBSET (1..Len(ProdMenu)) : J # {} /\ Cardinality(J) <= MaxProds},
     d \in PrecMenu}

\* S: L '=' R | R ;  L: '*' R | id ;  R: L ;
AssignGrammar ==
  load(<< Rule("S", <<"L", "'='", "R">>), Rule("S", <<"R">>),
          Rule("L", <<"'*'", "R">>), Rule("L", <<"id">>),
          Rule("R", <<"L">>) >>,
       {"id"}, <<>>)

\* %left '+'  %left '*'  E: E '+' E | E '*' E | number ;
ExprGrammar ==
  load(<< Rule("E", <<"E", "'+'", "E">>), Rule("E", <<"E", "'*'", "E">>),
          Rule("E", <<"number">>) >>,
       {"number"},
       << [assoc |-> "left", names |-> {"'+'"}], [assoc |-> "left", names |-> {"'*'"}] >>)

\* S: B A | %empty ;  A: A A ;  B: 'b' ;
UselessGrammar ==
  load(<< Rule("S", <<"B", "A">>), Rule("S", <<>>),
          Rule("A", <<"A", "A">>), Rule("B", <<"'b'">>) >>,
       {}, <<>>)

\* S: S B 'c' | 'a' ;  B: %empty | 'b' ;
SuffixGrammar ==
  load(<< Rule("S", <<"S", "B", "'c'">>), Rule("S", <<"'a'">>),
          Rule("B", <<>>), Rule("B", <<"'b'">>) >>,
       {}, <<>>)

\* E: E '+' T | T ;  T: T '*' F | F ;  F: number | '(' E ')' ;  %token number
TermGrammar ==
  load(<< Rule("E", <<"E", "'+'", "T">>), Rule("E", <<"T">>),
          Rule("T", <<"T", "'*'", "F">>), Rule("T", <<"F">>),
          Rule("F", <<"number">>), Rule("F", <<"'('", "E", "')'">>) >>,
       {"number"}, <<>>)

\* A: 'x' {tag} 'y' ;
TagGrammar ==
  load(<< ActionRule("A", <<"'x'", "'y'">>, 1 :> << <<"tag", 1>> >>) >>, {}, <<>>)

\* L: L 'a' {more} | 'b' {one} {two} ;
ListGrammar ==
  load(<< ActionRule("L", <<"L", "'a'">>, 2 :> << <<"more", 2>> >>),
          ActionRule("L", <<"'b'">>, 1 :> << <<"one", 1>>, <<"two", 1>> >>) >>,
       {}, <<>>)

\* %left '+'  E: E '+' E | E '*' E | number ;  %token number
HalfExprGrammar ==
  load(<< Rule("E", <<"E", "'+'", "E">>), Rule("E", <<"E", "'*'", "E">>),
          Rule("E", <<"number">>) >>,
       {"number"}, << [assoc |-> "left", names |-> {"'+'"}] >>)

\* GrammarLoader._add_rule on a rule that ends in %prec name
PrecRule(head, body, prec) == Production(head, body, prec, NoAction, TRUE)

\* %left 'y'  S: A | B ;  A: 'x' ;  B: 'x' %prec 'y' ;
PrecGrammar ==
  load(<< Rule("S", <<"A">>), Rule("S", <<"B">>), Rule("A", <<"'x'">>),
          PrecRule("B", <<"'x'">>, "'y'") >>,
       {}, << [assoc |-> "left", names |-> {"'y'"}] >>)

\* S: C 'y' | B 'z' ;  C: 'x' B | 'c' ;  B: 'x' C | 'b' ;
CrossGrammar ==
  load(<< Rule("S", <<"C", "'y'">>), Rule("S", <<"B", "'z'">>),
          Rule("C", <<"'x'", "B">>), Rule("C", <<"'c'">>),
          Rule("B", <<"'x'", "C">>), Rule("B", <<"'b'">>) >>,
       {}, <<>>)

\* A: {zero} 'x' {one} {two} 'y' {end} ;
MidGrammar ==
  load(<< ActionRule("A", <<"'x'", "'y'">>,
                     (0 :> << <<"zero", 0>> >>)
                       @@ (1 :> << <<"one", 1>>, <<"two", 1>> >>)
                       @@ (2 :> << <<"end", 2>> >>)) >>,
       {}, <<>>)

\* %left '-'  %right UMINUS  E: E '-' E | '-' E %prec UMINUS | number ;
UnaryGrammar ==
  load(<< Rule("E", <<"E", "'-'", "E">>), PrecRule("E", <<"'-'", "E">>, "UMINUS"),
          Rule("E", <<"number">>) >>,
       {"number"},
       << [assoc |-> "left", names |-> {"'-'"}], [assoc |-> "right", names |-> {"UMINUS"}] >>)

Catalogue ==
  {AssignGrammar, ExprGrammar, UselessGrammar, SuffixGrammar, TermGrammar,
   TagGrammar, ListGrammar, HalfExprGrammar, PrecGrammar, CrossGrammar, MidGrammar,
   UnaryGrammar}

Grammars == Family \cup Catalogue

Algorithms == {"lr0", "slr", "lr1", "lalr"}

\* the closure the analyzer of an algorithm uses for its states:
\* LR1Analyzer.closure, or the closure without lookaheads of LR0Analyzer
\* (inherited by SLRAnalyzer) and of the LALR skeleton
UsesLR1Closure(a) == a = "lr1"

\* the lookahead of the first kernel item: LR1Analyzer.__build_states, which
\* LR0Analyzer and SLRAnalyzer inherit, starts from $; the LALR skeleton
\* from none
InitialLookahead(a) == IF a = "lalr" THEN None ELSE EOF

(***************************************************************************)
(* The push-down driver.  A value of the value stack is a tree: the text   *)
(* of a token is a leaf, a Node has the name of the head and the values of *)
(* the body.  A semantic-action object is the set of the names of its      *)
(* methods; a callback returns the Node of its name over its arguments.    *)
(* calls is the history of the callbacks the driver has invoked: the name, *)
(* the production handed over (head and body), the arguments, and how many *)
(* tokens had been shifted.                                                *)
(***************************************************************************)
MaxInput == 7

Token(name, value) == [name |-> name, value |-> value]

Node(name, child) == [name |-> name, child |-> child]

Leaf(value) == Node(value, <<>>)

\* cstring.string_unquote on the literal names of the model
string_unquote(n) ==
  CASE n = "'('" -> "("  [] n = "')'" -> ")"  [] n = "'*'" -> "*"
    [] n = "'+'" -> "+"  [] n = "'='" -> "="  [] n = "'a'" -> "a"
    [] n = "'b'" -> "b"  [] n = "'c'" -> "c"  [] n = "'x'" -> "x"
    [] n = "'y'" -> "y"  [] n = "'z'" -> "z"  [] n = "'-'" -> "-"
    [] OTHER -> n

\* the text of the next token of the input: a literal is its own text, the
\* k-th token with a declared name has the text k
TokenText(inp, name) ==
  IF is_literal(name) THEN string_unquote(name) ELSE ToString(inp.named + 1)

\* PushDownInput after open
OpenInput == [taken |-> 0, named |-> 0, eof |-> FALSE]

\* PushDownInput.read; next is the name of the token the iterator yields,
\* or $ when it is exhausted
read(inp, next) ==
  IF inp.eof THEN [token |-> Token(None, None), input |-> inp]
  ELSE IF next = EOF
       THEN [token |-> Token(EOF, ""), input |-> [inp EXCEPT !.eof = TRUE]]
       ELSE [token |-> Token(next, TokenText(inp, next)),
             input |-> [inp EXCEPT !.taken = @ + 1,
                                   !.named = IF is_literal(next) THEN @ ELSE @ + 1]]

\* what the iterator can yield next: one more token of the grammar while
\* the input is shorter than the bound, or the end
NextTokens(gr, inp) ==
  IF inp.taken < MaxInput THEN (gr.terminal \ {EOF, PSHARP, EPSILON}) \cup {EOF}
  ELSE {EOF}

\* PDA._semantic_action before install_semantic_action
NoObject == [installed |-> FALSE, methods |-> {}]

\* an object with the given methods
Object(names) == [installed |-> TRUE, methods |-> names]

\* the tags of the actions of the grammar
ActionNames(gr) ==
  UNION {UNION {{gr.production[k].action[i][j][1] :
                   j \in 1..Len(gr.production[k].action[i])} :
                  i \in DOMAIN gr.production[k].action} :
           k \in 1..Len(gr.production)}

\* what create_parser can be given as semantic_action: nothing, or an
\* object with some of the callbacks of the grammar
SemanticObjects(gr) ==
  IF ActionNames(gr) = {} THEN {NoObject}
  ELSE {NoObject} \cup {Object(names) : names \in SUBSET ActionNames(gr)}

\* a PDA before open
NoPda ==
  [state_stack |-> <<>>, symbol_stack |-> <<>>, value_stack |-> <<>>,
   input_stack |-> <<>>, current |-> Token(None, None), accepted |-> FALSE,
   error |-> None, result |-> Leaf(None), raised |-> None,
   semantic_action |-> NoObject, calls |-> <<>>]

\* PDA.install_semantic_action
install_semantic_action(p, obj) == [p EXCEPT !.semantic_action = obj]

\* PDA.open
open(token) ==
  [NoPda EXCEPT !.state_stack = <<0>>, !.symbol_stack = <<EOF>>,
                !.value_stack = <<Leaf(None)>>, !.current = token]

\* PDA.is_stopped, or an exception has left step
is_stopped(p) == p.accepted \/ p.error # None \/ p.raised # None

Top(stack) == stack[Len(stack)]

\* tab.rows[state].get(name, None)
Cell(t, state, name) ==
  IF name \in DOMAIN t[state + 1] THEN t[state + 1][name] ELSE {}

\* list(data)[0]
First(data) == CHOOSE a \in data : TRUE

Pop(stack, size) == SubSeq(stack, 1, Len(stack) - size)

\* the values at the bottom of the value stack, where __generate_args
\* counts from the top
values_from_bottom(p, size) == SubSeq(p.value_stack, 1, size)

\* PDA.__generate_args(size)[1:] : the values of the handle
HandleValues(p, size) ==
  SubSeq(p.value_stack, Len(p.value_stack) - size + 1, Len(p.value_stack))

\* the args of a callback when __generate_args returns None
NoArgs == <<>>

\* the values of the handle alone, without the value below it
args_without_base(p, size) ==
  IF Len(p.state_stack) <= size THEN NoArgs
  ELSE SubSeq(p.value_stack, Len(p.state_stack) - size + 1, Len(p.state_stack))

\* PDA.__generate_args
generate_args(p, size) ==
  IF Len(p.state_stack) <= size THEN NoArgs
  ELSE SubSeq(p.value_stack, Len(p.state_stack) - size, Len(p.state_stack))

\* the value a callback returns
Callback(name, parent, args) == Node(name, args)

\* raise KeyError('action %s is not defined')
KeyError(actname) == "KeyError: action {" \o actname \o "} is not defined"

\* PDA.__execute_action ; parent is <<head, body>> of the production handed
\* to the callback.  The result is [hr, value, p]: p has the call recorded,
\* or the exception raised
execute_action(p, parent, actname, actsize) ==
  LET args == generate_args(p, actsize)
  IN IF ~p.semantic_action.installed
     THEN [hr |-> 0, value |-> Leaf(None), p |-> p]
     ELSE IF actname \notin p.semantic_action.methods
     THEN [hr |-> 0, value |-> Leaf(None), p |-> [p EXCEPT !.raised = KeyError(actname)]]
     ELSE [hr |-> 1, value |-> Callback(actname, parent, args),
           p |-> [p EXCEPT !.calls =
                    Append(@, [name |-> actname, rule |-> parent, args |-> args,
                               shifted |-> Len(p.input_stack)])]]

RECURSIVE EvalActions(_, _, _, _)
\* the loop of __rule_eval over the actions of one position; st is
\* [p, value, executed]
EvalActions(st, parent, actions, size) ==
  IF actions = <<>> \/ st.p.raised # None THEN st
  ELSE LET r == execute_action(st.p, parent, Head(actions)[1], Head(actions)[2])
       IN EvalActions([p |-> r.p,
                       value |-> IF r.hr > 0 THEN r.value ELSE st.value,
                       executed |-> IF r.hr > 0 THEN st.executed + 1 ELSE st.executed],
                      parent, Tail(actions), size)

RECURSIVE EvalPositions(_, _, _, _)
\* the loop of __rule_eval over the positions of rule.action: a position
\* other than the length of the body is skipped
EvalPositions(st, r, parent, keys) ==
  IF keys = {} \/ st.p.raised # None THEN st
  ELSE LET pos == CHOOSE k \in keys : \A j \in keys : k <= j
       IN EvalPositions(IF pos # Len(r.body) THEN st
                        ELSE EvalActions(st, parent, r.action[pos], Len(r.body)),
                        r, parent, keys \ {pos})

\* PDA.__rule_eval past the check of the stack size: [p, value], p with
\* the calls made or the exception raised; the default Node when no
\* callback was executed
rule_eval(p, r) ==
  LET parent == IF r.parent # <<>> THEN r.parent ELSE <<r.head, r.body>>
      st == EvalPositions([p |-> p, value |-> Leaf(None), executed |-> 0],
                          r, parent, DOMAIN r.action)
  IN [p |-> st.p,
      value |-> IF st.executed = 0 THEN Node(r.head, HandleValues(p, Len(r.body)))
                ELSE st.value]

\* PDA.__proceed_reduce
proceed_reduce(gr, t, p, target) ==
  LET r == Prod(gr, target)
      size == Len(r.body)
      ev == rule_eval(p, r)
      popped == [ev.p EXCEPT !.state_stack = Pop(@, size),
                             !.symbol_stack = Pop(@, size),
                             !.value_stack = Pop(@, size)]
      data == Cell(t, Top(popped.state_stack), r.head)
  IN IF Len(p.state_stack) <= size
     THEN [p EXCEPT !.error = "stack size is not enough", !.raised = "ValueError"]
     ELSE IF ev.p.raised # None THEN ev.p
     ELSE IF data = {} THEN [popped EXCEPT !.error = "reduction state mismatch"]
     ELSE IF First(data).name # SHIFT THEN [popped EXCEPT !.error = "invalid action name"]
     ELSE [popped EXCEPT !.state_stack = Append(@, First(data).target),
                         !.symbol_stack = Append(@, r.head),
                         !.value_stack = Append(@, ev.value)]

\* PDA.step on a Shift; token is what input.read returns
step_shift(p, a, token) ==
  [p EXCEPT !.state_stack = Append(@, a.target),
            !.symbol_stack = Append(@, p.current.name),
            !.value_stack = Append(@, Leaf(p.current.value)),
            !.input_stack = Append(@, p.current.value),
            !.current = token]

\* an Accept that takes the result from the bottom of the value stack
step_accept_bottom(p) ==
  IF Len(p.state_stack) # 2 THEN [p EXCEPT !.raised = "AssertionError"]
  ELSE [p EXCEPT !.accepted = TRUE, !.result = p.value_stack[1]]

\* PDA.step on an Accept
step_accept(p) ==
  IF Len(p.state_stack) # 2 THEN [p EXCEPT !.raised = "AssertionError"]
  ELSE [p EXCEPT !.accepted = TRUE, !.result = Top(p.value_stack)]

\* a step that clears the flags of a stopped driver and lets it go on
step_resuming(p) == [p EXCEPT !.accepted = FALSE, !.error = None]

\* PDA.step of a driver that has accepted or recorded an error: it returns
\* -1 or -2 before it touches anything but the analysis log
step_stopped(p) == p

\* a step that discards the top of the stacks when the cell is empty and
\* goes on
step_fail_recovering(p, data) ==
  IF Len(p.state_stack) > 1
  THEN [p EXCEPT !.state_stack = Pop(@, 1), !.symbol_stack = Pop(@, 1),
                 !.value_stack = Pop(@, 1)]
  ELSE [p EXCEPT !.error = "unexpected token"]

\* Parser.__call__ after pda.run has returned: the value it returns and
\* the error it exposes
Parser_call(p) ==
  [value |-> IF p.accepted THEN p.result ELSE Leaf(None), error |-> p.error]

\* PDA.step when the cell gives no single usable action
step_fail(p, data) ==
  IF data = {} THEN [p EXCEPT !.error = "unexpected token"]
  ELSE IF Cardinality(data) # 1 THEN [p EXCEPT !.raised = "AssertionError"]
  ELSE [p EXCEPT !.error = "syntax error"]

\* PDA.step as a whole: the driver and its token source after one step;
\* next is the name the iterator yields if the step reads a token
step(gr, t, p, inp, next) ==
  LET data == Cell(t, Top(p.state_stack), p.current.name)
  IN IF p.accepted \/ p.error # None THEN [pda |-> step_stopped(p), input |-> inp]
     ELSE IF Cardinality(data) # 1 THEN [pda |-> step_fail(p, data), input |-> inp]
     ELSE IF First(data).name = SHIFT
     THEN [pda |-> step_shift(p, First(data), read(inp, next).token),
           input |-> read(inp, next).input]
     ELSE IF First(data).name = REDUCE
     THEN [pda |-> proceed_reduce(gr, t, p, First(data).target), input |-> inp]
     ELSE IF First(data).name = ACCEPT THEN [pda |-> step_accept(p), input |-> inp]
     ELSE [pda |-> step_fail(p, data), input |-> inp]

RECURSIVE PDA_run(_, _, _, _, _)
\* PDA.run : steps until the driver has stopped; names are the names the
\* iterator has yet to yield before it is exhausted
PDA_run(gr, t, p, inp, names) ==
  IF is_stopped(p) THEN p
  ELSE LET s == step(gr, t, p, inp, IF names = <<>> THEN EOF ELSE Head(names))
       IN After(s, PDA_run(gr, t, s.pda, s.input,
                           IF s.input.taken = inp.taken THEN names ELSE Tail(names)))

\* Parser.__call__ of a Parser of its own: the driver is opened on the
\* names and run to its end
Parser_run(gr, t, obj, names) ==
  LET first == read(OpenInput, IF names = <<>> THEN EOF ELSE Head(names))
  IN PDA_run(gr, t, install_semantic_action(open(first.token), obj), first.input,
             IF names = <<>> THEN <<>> ELSE Tail(names))

(***************************************************************************)
(* The generator as a state machine: one run of                            *)
(* __create_with_grammar (analyzer.process, then ConflictSolver.process),  *)
(* and a second run of the same steps on the same Grammar object.          *)
(*   g      the Grammar object                                             *)
(*   algo   the algorithm of the analyzer                                  *)
(*   pc     the step the run has reached                                   *)
(*   ga     the GrammarAnalyzer: info, FIRST, FOLLOW, SELECT               *)
(*   an     the analyzer's registry: state, pending, link, backlink        *)
(*   lr     LALRAnalyzer: lookahead, route, dirty                          *)
(*   la     LALRAnalyzer.la, the LR(1) analyzer the table is built from    *)
(*   tab    analyzer.tab, resolved in place by the solver                  *)
(*   raw    the table as build_table left it                               *)
(*   order  the iteration order of the table's cells in this interpreter   *)
(*   warned the number of warnings the solver has written                  *)
(*   run    1 for the first build, 2 for the second                        *)
(*   prev   the results of the first build, kept for comparison            *)
(*   pda    the PDA of the Parser: its stacks, lookahead and outcome        *)
(*   input  the PushDownInput of the PDA                                   *)
(*   pair   two more PDA objects made for the same grammar and table, each  *)
(*          with its PushDownInput and the names it has read               *)
(*   stacks the state stacks the PDA has had in PDA.run since it last      *)
(*          read a token                                                   *)
(***************************************************************************)
VARIABLES g, algo, pc, ga, an, lr, la, tab, raw, order, warned, run, prev, pda, input,
          pair, stacks

vars == <<g, algo, pc, ga, an, lr, la, tab, raw, order, warned, run, prev, pda, input,
          pair, stacks>>

generator == <<g, algo, pc, ga, an, lr, la, tab, raw, order, warned, run, prev>>

driver == <<pda, input, pair, stacks>>

NumOrders == 6

NoGa == [info |-> <<>>, FIRST |-> <<>>, FOLLOW |-> <<>>, SELECT |-> <<>>, integrity |-> 0]

NoLr == [lookahead |-> <<>>, route |-> <<>>, dirty |-> {}]

NoPrev == [kernel |-> <<>>, raw |-> <<>>, tab |-> <<>>, production |-> <<>>]

\* the state after load_from_string has made the Grammar object of one of
\* the grammars of G, before the analyzer is run
InitWith(G) ==
  /\ g \in G
  /\ algo \in Algorithms
  /\ pc = "loaded"
  /\ ga = NoGa
  /\ an = EmptyAnalyzer
  /\ lr = NoLr
  /\ la = EmptyAnalyzer
  /\ tab = <<>>
  /\ raw = <<>>
  /\ order = 0
  /\ warned = 0
  /\ run = 1
  /\ prev = NoPrev
  /\ pda = NoPda
  /\ input = OpenInput
  /\ pair = <<>>
  /\ stacks = {}

Init == InitWith(Grammars)

\* the states the table is built from
TableAnalyzer == IF algo = "lalr" THEN la ELSE an

\* analyzer.process, first part: clear() and GrammarAnalyzer.process
Analyze ==
  /\ pc = "loaded"
  /\ \E r \in {ga_process(g)} :
       /\ g' = r.g
       /\ ga' = [info |-> r.info, FIRST |-> r.FIRST, FOLLOW |-> r.FOLLOW,
                 SELECT |-> r.SELECT, integrity |-> r.integrity]
  /\ an' = EmptyAnalyzer
  /\ la' = EmptyAnalyzer
  /\ lr' = NoLr
  /\ pc' = "analyzed"
  /\ UNCHANGED <<algo, tab, raw, order, warned, run, prev>>
  /\ UNCHANGED driver

\* analyzer.process, second part: check_grammar; a grammar with errors is
\* rejected (process returns 1)
Reject ==
  /\ pc = "analyzed"
  /\ check_grammar(g) > 0
  /\ pc' = "rejected"
  /\ UNCHANGED <<g, algo, ga, an, lr, la, tab, raw, order, warned, run, prev>>
  /\ UNCHANGED driver

\* the second part of process, had it augmented the grammar on every run
BeginAugmentAgain ==
  /\ pc = "analyzed"
  /\ check_grammar(g) = 0
  /\ g' = augment(g)
  /\ an' = initial_state(g', ga.FIRST, UsesLR1Closure(algo), InitialLookahead(algo))
  /\ pc' = "states"
  /\ UNCHANGED <<algo, ga, lr, la, tab, raw, order, warned, run, prev>>
  /\ UNCHANGED driver

\* analyzer.process, second part: check_grammar passes, the grammar is
\* augmented unless it already is, and __build_states registers state 0
Begin ==
  /\ pc = "analyzed"
  /\ check_grammar(g) = 0
  /\ g' = IF Contains(g.symbol, AUG) THEN g ELSE augment(g)
  /\ an' = initial_state(g', ga.FIRST, UsesLR1Closure(algo), InitialLookahead(algo))
  /\ pc' = "states"
  /\ UNCHANGED <<algo, ga, lr, la, tab, raw, order, warned, run, prev>>
  /\ UNCHANGED driver

\* one round of the loop of __build_states: the oldest pending state is
\* taken and its successors are registered and linked
UpdateState ==
  /\ pc = "states"
  /\ an.pending # <<>>
  /\ an' = update_state(g, ga.FIRST, an, UsesLR1Closure(algo))
  /\ UNCHANGED <<g, algo, pc, ga, lr, la, tab, raw, order, warned, run, prev>>
  /\ UNCHANGED driver

\* LALRAnalyzer.process: the LR(0) states are complete; the closures are
\* shrunk and the spontaneous lookaheads and the routes are computed
BuildRoute ==
  /\ pc = "states"
  /\ an.pending = <<>>
  /\ algo = "lalr"
  /\ an' = shrink(an)
  /\ lr' = build_propagate_route(g, ga.FIRST, an)
  /\ pc' = "lookahead"
  /\ UNCHANGED <<g, algo, ga, la, tab, raw, order, warned, run, prev>>
  /\ UNCHANGED driver

\* one round of the loop of LALRAnalyzer.__build_lookahead that adds
\* lookaheads
Propagate ==
  /\ pc = "lookahead"
  /\ PropagateRound(lr, lr.dirty).lookahead # lr.lookahead
  /\ lr' = PropagateRound(lr, lr.dirty)
  /\ UNCHANGED <<g, algo, pc, ga, an, la, tab, raw, order, warned, run, prev>>
  /\ UNCHANGED driver

\* the last round of __build_lookahead (it adds nothing), then
\* __build_LR1_state; a KeyError from la.append ends the run
BuildLR1State ==
  /\ pc = "lookahead"
  /\ PropagateRound(lr, lr.dirty).lookahead = lr.lookahead
  /\ lr' = PropagateRound(lr, lr.dirty)
  /\ LET r == build_LR1_state(g, ga.FIRST, an, lr')
     IN /\ la' = r.la
        /\ pc' = IF r.ok THEN "complete" ELSE "crashed"
  /\ UNCHANGED <<g, algo, ga, an, tab, raw, order, warned, run, prev>>
  /\ UNCHANGED driver

\* build_table of the analyzer
BuildTable ==
  /\ \/ pc = "complete"
     \/ pc = "states" /\ an.pending = <<>> /\ algo # "lalr"
  /\ tab' = build_table(g, ga.FOLLOW, algo, TableAnalyzer)
  /\ raw' = tab'
  /\ pc' = "built"
  /\ UNCHANGED <<g, algo, ga, an, lr, la, order, warned, run, prev>>
  /\ UNCHANGED driver

\* a cell the solver has to resolve
Conflicted(t) == \E r \in 1..Len(t) : \E c \in DOMAIN t[r] : Cardinality(t[r][c]) > 1

\* ConflictSolver.process on analyzer.tab.  The first run meets the
\* iteration order of this interpreter's sets (no cell is iterated when no
\* cell holds two actions); a TypeError from a warning ends the run
Solve ==
  /\ pc = "built"
  /\ order' \in IF run = 1 /\ Conflicted(tab) THEN 0..(NumOrders - 1) ELSE {order}
  /\ LET r == ConflictSolver_process(g, tab, order')
     IN /\ tab' = r.tab
        /\ warned' = r.warned
        /\ pc' = IF r.crashed THEN "crashed" ELSE "solved"
  /\ UNCHANGED <<g, algo, ga, an, lr, la, raw, run, prev>>
  /\ UNCHANGED driver

\* the kernels of the states of the table, by uuid
Kernels(a) == Built([u \in 1..Len(a.state) |-> a.state[u].kernel])

\* the parser is built a second time from the same Grammar object with the
\* same algorithm
Rebuild ==
  /\ pc = "solved"
  /\ run = 1
  /\ prev' = [kernel |-> Kernels(TableAnalyzer), raw |-> raw, tab |-> tab,
              production |-> g.production]
  /\ run' = 2
  /\ pc' = "loaded"
  /\ UNCHANGED <<g, algo, ga, an, lr, la, tab, raw, order, warned>>
  /\ UNCHANGED driver

Next ==
  \/ Analyze
  \/ Reject
  \/ Begin
  \/ UpdateState
  \/ BuildRoute
  \/ Propagate
  \/ BuildLR1State
  \/ BuildTable
  \/ Solve
  \/ Rebuild

Spec == Init /\ [][Next]_vars

(***************************************************************************)
(* The loops of the analyzers, round by round: GrammarAnalyzer.process     *)
(* with each round of the nullable-flag loop, the FIRST loop and the       *)
(* FOLLOW loop as a step of its own, followed by the construction of the   *)
(* states and the rounds of the lookahead propagation.  ga holds the       *)
(* flags and the sets while they are computed.                             *)
(***************************************************************************)
InitLoops == InitWith(Grammars)

\* GrammarAnalyzer.process up to the while loop of __update_epsilon:
\* the mid-rule actions are lifted, the SymbolInfo are made and the first
\* loop of __update_epsilon sets the flags the rules decide at once
StartEpsilon ==
  /\ pc = "loaded"
  /\ g' = argument_semantic_action(g)
  /\ ga' = [NoGa EXCEPT !.info = InitialEpsilon(g', build_info(g'))]
  /\ pc' = "epsilon"
  /\ UNCHANGED <<algo, an, lr, la, tab, raw, order, warned, run, prev>>
  /\ UNCHANGED driver

\* a round of the while loop of __update_epsilon that decides a flag
EpsilonRound ==
  /\ pc = "epsilon"
  /\ LET next == EpsilonPass(g, ga.info)
     IN /\ ~(next.g = g /\ next.info = ga.info)
        /\ g' = next.g
        /\ ga' = [ga EXCEPT !.info = next.info]
  /\ UNCHANGED <<algo, pc, an, lr, la, tab, raw, order, warned, run, prev>>
  /\ UNCHANGED driver

\* the last round of __update_epsilon (it decides nothing), then
\* __update_first_set up to its while loop
StartFirst ==
  /\ pc = "epsilon"
  /\ LET next == EpsilonPass(g, ga.info)
     IN /\ next.g = g /\ next.info = ga.info
        /\ ga' = [ga EXCEPT !.FIRST = InitialFirst(g)]
  /\ pc' = "first"
  /\ UNCHANGED <<g, algo, an, lr, la, tab, raw, order, warned, run, prev>>
  /\ UNCHANGED driver

\* a round of the while loop of __update_first_set that adds a name
FirstRound ==
  /\ pc = "first"
  /\ LET next == FirstPass(g, ga.FIRST, FirstVisitOrder(g))
     IN /\ next # ga.FIRST
        /\ ga' = [ga EXCEPT !.FIRST = next]
  /\ UNCHANGED <<g, algo, pc, an, lr, la, tab, raw, order, warned, run, prev>>
  /\ UNCHANGED driver

\* the last round of __update_first_set (it adds nothing), then
\* __update_follow_set up to its while loop
StartFollow ==
  /\ pc = "first"
  /\ FirstPass(g, ga.FIRST, FirstVisitOrder(g)) = ga.FIRST
  /\ ga' = [ga EXCEPT !.FOLLOW = InitialFollow(g)]
  /\ pc' = "follow"
  /\ UNCHANGED <<g, algo, an, lr, la, tab, raw, order, warned, run, prev>>
  /\ UNCHANGED driver

\* a round of the while loop of __update_follow_set that adds a name
FollowRound ==
  /\ pc = "follow"
  /\ LET next == FollowPass(g, ga.FIRST, ga.FOLLOW, 1, 1)
     IN /\ next # ga.FOLLOW
        /\ ga' = [ga EXCEPT !.FOLLOW = next]
  /\ UNCHANGED <<g, algo, pc, an, lr, la, tab, raw, order, warned, run, prev>>
  /\ UNCHANGED driver

\* the last round of __update_follow_set (it adds nothing), then the rest
\* of GrammarAnalyzer.process: the SELECT sets and the integrity check
FinishAnalyze ==
  /\ pc = "follow"
  /\ FollowPass(g, ga.FIRST, ga.FOLLOW, 1, 1) = ga.FOLLOW
  /\ ga' = [ga EXCEPT !.SELECT = update_select_set(g, ga.FIRST, ga.FOLLOW),
                      !.integrity = check_integrity(g, ga.info, ga.FIRST)]
  /\ an' = EmptyAnalyzer
  /\ la' = EmptyAnalyzer
  /\ lr' = NoLr
  /\ pc' = "analyzed"
  /\ UNCHANGED <<g, algo, tab, raw, order, warned, run, prev>>
  /\ UNCHANGED driver

NextLoops ==
  \/ StartEpsilon
  \/ EpsilonRound
  \/ StartFirst
  \/ FirstRound
  \/ StartFollow
  \/ FollowRound
  \/ FinishAnalyze
  \/ Reject
  \/ Begin
  \/ UpdateState
  \/ BuildRoute
  \/ Propagate
  \/ BuildLR1State

\* no step of NextLoops can be taken: the grammar is rejected, or the
\* states are complete (with their lookaheads, for LALR)
LoopsEnded ==
  \/ pc \in {"rejected", "complete", "crashed"}
  \/ pc = "states" /\ an.pending = <<>> /\ algo # "lalr"

\* the analyzer runs on, a step that can be taken is taken: weak fairness
\* of NextLoops, the states in which NextLoops is not enabled being those
\* of LoopsEnded
LoopsRunOn == []<>LoopsEnded \/ []<><<NextLoops>>_vars

SpecLoops == InitLoops /\ [][NextLoops]_vars /\ LoopsRunOn

(***************************************************************************)
(* Two drivers of one table: two PDA objects are made for the grammar and  *)
(* the table of a generated parser, each is opened on a token source of    *)
(* its own that yields up to MaxPairInput tokens, and their steps are      *)
(* taken in any order.                                                     *)
(***************************************************************************)
MaxPairInput == 2

PairGrammars == {TagGrammar, PrecGrammar, AssignGrammar}

InitPair == InitWith(PairGrammars)

\* a PDA after PDA.__init__, with its PushDownInput
NewDriver == [pda |-> NoPda, input |-> OpenInput, fed |-> <<>>, opened |-> FALSE]

\* what the iterator of a driver of the pair can yield next
PairTokens(gr, inp) ==
  IF inp.taken < MaxPairInput THEN (gr.terminal \ {EOF, PSHARP, EPSILON}) \cup {EOF}
  ELSE {EOF}

\* the names a token source has yielded, one more read
Fed(fed, inp, next) == IF inp.eof \/ next = EOF THEN fed ELSE Append(fed, next)

\* PDA.__init__, twice, for the grammar and the table of the parser
MakePair ==
  /\ pc = "solved"
  /\ pc' = "pair"
  /\ pair' = <<NewDriver, NewDriver>>
  /\ UNCHANGED <<g, algo, ga, an, lr, la, tab, raw, order, warned, run, prev, pda, input,
                 stacks>>

\* a step of driver i that shares the stacks with the other driver, as if
\* they were attributes of the class
StepOneOnSharedStacks(i) ==
  /\ pc = "pair"
  /\ pair[i].opened
  /\ pair[i].pda.raised = None
  /\ \E next \in PairTokens(g, pair[i].input) :
       LET s == step(g, tab, pair[i].pda, pair[i].input, next)
       IN pair' = [k \in 1..2 |->
                    IF k = i
                    THEN [pair[i] EXCEPT !.pda = s.pda, !.input = s.input,
                                         !.fed = IF s.input = pair[i].input THEN @
                                                 ELSE Fed(@, pair[i].input, next)]
                    ELSE [pair[k] EXCEPT !.pda.state_stack = s.pda.state_stack,
                                         !.pda.symbol_stack = s.pda.symbol_stack,
                                         !.pda.value_stack = s.pda.value_stack]]
  /\ UNCHANGED <<pda, input, stacks, generator>>

\* install_semantic_action and PDA.open of driver i
OpenOne(i) ==
  /\ pc = "pair"
  /\ ~pair[i].opened
  /\ \E next \in PairTokens(g, OpenInput), obj \in SemanticObjects(g) :
       pair' = [pair EXCEPT ![i] =
                  [pda |-> install_semantic_action(open(read(OpenInput, next).token), obj),
                   input |-> read(OpenInput, next).input,
                   fed |-> Fed(<<>>, OpenInput, next),
                   opened |-> TRUE]]
  /\ UNCHANGED <<pda, input, stacks, generator>>

\* PDA.step of driver i
StepOne(i) ==
  /\ pc = "pair"
  /\ pair[i].opened
  /\ pair[i].pda.raised = None
  /\ \E next \in PairTokens(g, pair[i].input) :
       LET s == step(g, tab, pair[i].pda, pair[i].input, next)
       IN pair' = [pair EXCEPT ![i].pda = s.pda, ![i].input = s.input,
                               ![i].fed = IF s.input = pair[i].input THEN @
                                          ELSE Fed(@, pair[i].input, next)]
  /\ UNCHANGED <<pda, input, stacks, generator>>

NextPair ==
  \/ Analyze
  \/ Begin
  \/ UpdateState
  \/ BuildRoute
  \/ Propagate
  \/ BuildLR1State
  \/ BuildTable
  \/ Solve
  \/ MakePair
  \/ \E i \in 1..2 : OpenOne(i)
  \/ \E i \in 1..2 : StepOne(i)

SpecPair == InitPair /\ [][NextPair]_vars

(***************************************************************************)
(* Parser.__call__ as a state machine: the driver is opened and PDA.run    *)
(* steps it until it has stopped.  The steps of a driver depend on its     *)
(* state stack and its lookahead alone, so a driver that is back at a      *)
(* state stack it has had since it last read a token repeats its steps     *)
(* for ever; the model follows it up to there.                             *)
(***************************************************************************)
\* S: S | 'b' ;
UnitGrammar == load(<< Rule("S", <<"S">>), Rule("S", <<"'b'">>) >>, {}, <<>>)

RunGrammars == Catalogue \cup {UnitGrammar}

InitRun == InitWith(RunGrammars)

\* the driver goes on, and it is back at a state stack it has had since it
\* last read
Repeating == ~is_stopped(pda) /\ pda.state_stack \in stacks

\* Parser.__call__ : pda.open(code), before pda.run
RunOpen ==
  /\ pc = "solved"
  /\ pc' = "run"
  /\ \E next \in NextTokens(g, OpenInput), obj \in SemanticObjects(g) :
       /\ pda' = install_semantic_action(open(read(OpenInput, next).token), obj)
       /\ input' = read(OpenInput, next).input
  /\ UNCHANGED <<g, algo, ga, an, lr, la, tab, raw, order, warned, run, prev, pair, stacks>>

\* one round of the while loop of PDA.run : the driver has not stopped,
\* and step is called
RunStep ==
  /\ pc = "run"
  /\ ~is_stopped(pda)
  /\ ~Repeating
  /\ \E next \in NextTokens(g, input) :
       LET s == step(g, tab, pda, input, next)
       IN /\ pda' = s.pda
          /\ input' = s.input
          /\ stacks' = IF s.input # input THEN {} ELSE stacks \cup {pda.state_stack}
  /\ UNCHANGED <<pair, generator>>

NextRun ==
  \/ Analyze
  \/ Begin
  \/ UpdateState
  \/ BuildRoute
  \/ Propagate
  \/ BuildLR1State
  \/ BuildTable
  \/ Solve
  \/ RunOpen
  \/ RunStep

SpecRun == InitRun /\ [][NextRun]_vars

(***************************************************************************)
(* The driver as a state machine: create_parser builds a Parser for a      *)
(* grammar of the catalogue, and the Parser is called on a token source    *)
(* that yields up to MaxInput tokens.                                      *)
(***************************************************************************)
DriverGrammars == Catalogue

InitDriver == InitWith(DriverGrammars)

\* the end of __create_with_grammar, which installs the semantic-action
\* object if one is given, and Parser.__call__ : pda.open(code), which
\* reads the first token
Open ==
  /\ pc = "solved"
  /\ pc' = "parser"
  /\ \E next \in NextTokens(g, OpenInput), obj \in SemanticObjects(g) :
       /\ pda' = install_semantic_action(open(read(OpenInput, next).token), obj)
       /\ input' = read(OpenInput, next).input
  /\ UNCHANGED <<g, algo, ga, an, lr, la, tab, raw, order, warned, run, prev, pair, stacks>>

\* the cell the step looks at
Data == Cell(tab, Top(pda.state_stack), pda.current.name)

Running == pc = "parser" /\ ~is_stopped(pda)

\* PDA.step : Shift, and the next token is read
StepShift ==
  /\ Running
  /\ Cardinality(Data) = 1
  /\ First(Data).name = SHIFT
  /\ \E next \in NextTokens(g, input) :
       /\ pda' = step_shift(pda, First(Data), read(input, next).token)
       /\ input' = read(input, next).input
  /\ UNCHANGED <<pair, stacks, generator>>

\* PDA.step : Reduce
StepReduce ==
  /\ Running
  /\ Cardinality(Data) = 1
  /\ First(Data).name = REDUCE
  /\ pda' = proceed_reduce(g, tab, pda, First(Data).target)
  /\ UNCHANGED <<input, pair, stacks, generator>>

\* PDA.step : Accept
StepAccept ==
  /\ Running
  /\ Cardinality(Data) = 1
  /\ First(Data).name = ACCEPT
  /\ pda' = step_accept(pda)
  /\ UNCHANGED <<input, pair, stacks, generator>>

\* PDA.step : no action, or none that can be taken
StepFail ==
  /\ Running
  /\ IF Cardinality(Data) = 1 THEN First(Data).name = ERROR ELSE TRUE
  /\ pda' = step_fail(pda, Data)
  /\ UNCHANGED <<input, pair, stacks, generator>>

\* PDA.step of a driver that has stopped: it returns at once
StepStopped ==
  /\ pc = "parser"
  /\ pda.accepted \/ pda.error # None
  /\ pda' = step_stopped(pda)
  /\ UNCHANGED <<input, pair, stacks, generator>>

NextDriver ==
  \/ Analyze
  \/ Begin
  \/ UpdateState
  \/ BuildRoute
  \/ Propagate
  \/ BuildLR1State
  \/ BuildTable
  \/ Solve
  \/ Open
  \/ StepShift
  \/ StepReduce
  \/ StepAccept
  \/ StepFail
  \/ StepStopped

SpecDriver == InitDriver /\ [][NextDriver]_vars

(***************************************************************************)
(* Properties of the grammar analyzer.                                     *)
(***************************************************************************)
RECURSIVE DerivesEmptyFrom(_, _)
\* the nonterminals that derive the empty string: the least set that holds
\* the head of every production whose body lies in it
DerivesEmptyFrom(gr, seen) ==
  LET more == seen \cup {gr.production[k].head :
                           k \in {j \in 1..Len(gr.production) :
                                    Range(gr.production[j].body) \subseteq seen}}
  IN IF more = seen THEN seen ELSE DerivesEmptyFrom(gr, more)

\* the grammar analyzer has run on the grammar as it is now
Analyzed == pc = "analyzed"

\* C4: after GrammarAnalyzer.process every nonterminal of the grammar has
\* its flags and its FIRST set, and for every nonterminal N the empty symbol
\* is in FIRST[N] exactly when has_epsilon of N is true, which is exactly
\* when N derives the empty string
C4_EpsilonInFirstIffNullable ==
  /\ Analyzed => Nonterminals(g) \subseteq DOMAIN ga.info
  /\ \A N \in DOMAIN ga.info :
       ~Term(g, N) =>
         /\ (EPSILON \in ga.FIRST[N]) <=> (ga.info[N].has_epsilon = T)
         /\ (EPSILON \in ga.FIRST[N]) <=> (N \in DerivesEmptyFrom(g, {}))

\* a grammar with a nullable nonterminal and one that is not nullable
C4_Witness ==
  /\ Analyzed
  /\ \E N, M \in Nonterminals(g) :
       /\ ga.info[N].has_epsilon = T /\ EPSILON \in ga.FIRST[N]
       /\ ga.info[M].has_epsilon # T /\ EPSILON \notin ga.FIRST[M]
       /\ ga.FIRST[M] # {}

\* SELECT[p] lies in FIRST(head of p) united with FOLLOW(head of p)
SelectWithinFirstFollow ==
  \A k \in 1..Len(g.production) :
     ga.SELECT[k] \subseteq
       (ga.FIRST[g.production[k].head] \cup ga.FOLLOW[g.production[k].head])

SelectNonEmpty == \A k \in 1..Len(g.production) : ga.SELECT[k] # {}

\* every nonterminal is reachable from the start symbol and derives a
\* string of terminals
Reduced(gr) ==
  /\ Nonterminals(gr) \subseteq find_terminated_symbol(gr)
  /\ Nonterminals(gr) \subseteq find_reachable(gr, {gr.start})

\* C5 as stated: after GrammarAnalyzer.process, for every production p,
\* SELECT[p] is a subset of FIRST(head) united with FOLLOW(head) and is
\* not empty
C5_SelectWithinAndNonEmpty ==
  Analyzed => SelectWithinFirstFollow /\ SelectNonEmpty

\* C5: after GrammarAnalyzer.process, for every production p, SELECT[p] is
\* a subset of FIRST(head) united with FOLLOW(head); it is not empty when
\* every nonterminal of the grammar is reachable from the start symbol and
\* derives a string of terminals
C5_SelectWithinAndNonEmptyIfReduced ==
  Analyzed => SelectWithinFirstFollow /\ (Reduced(g) => SelectNonEmpty)

\* a reduced grammar with an empty production, whose SELECT set comes from
\* FOLLOW, and a production that is not empty
C5_Witness ==
  /\ Analyzed
  /\ Reduced(g)
  /\ \E k, j \in 1..Len(g.production) :
       /\ g.production[k].body = <<>>
       /\ ga.SELECT[k] = ga.FOLLOW[g.production[k].head]
       /\ ga.SELECT[k] # {}
       /\ g.production[j].body # <<>>
       /\ ga.SELECT[j] # {}

\* what lifting leaves alone: head, body, action map with its offsets, and
\* the parent of a marker
Shape(p) == [head |-> p.head, body |-> p.body, action |-> p.action, parent |-> p.parent]

Shapes(prods) == [k \in 1..Len(prods) |-> Shape(prods[k])]

Markers(gr) == {n \in Range(gr.symbol) : \E k \in 1..4 : n = MarkerName(k)}

\* C8: lifting is idempotent.  Applied to the grammar the analyzer has
\* lifted, __argument_semantic_action returns the same productions in the
\* same order, with the same action maps and parents, and the same symbols
\* (no new marker); and the second run of GrammarAnalyzer.process on the
\* Grammar object leaves the productions as the first run left them
C8_LiftingIdempotent ==
  /\ (pc # "loaded" \/ run = 2) =>
       LET again == argument_semantic_action(g)
       IN /\ Shapes(again.production) = Shapes(g.production)
          /\ again.production = g.production
          /\ Markers(again) = Markers(g)
          /\ again.symbol = g.symbol
  /\ (run = 2 /\ Analyzed) => Shapes(g.production) = Shapes(prev.production)

\* the second run has lifted a grammar that holds a marker, a root with an
\* end-of-rule action and the marker's production with its parent
C8_Witness ==
  /\ run = 2
  /\ Analyzed
  /\ \E k, j \in 1..Len(g.production) :
       /\ g.production[k].head = MarkerName(1)
       /\ g.production[k].parent = <<g.production[j].head, g.production[j].body>>
       /\ Len(g.production[j].body) \in DOMAIN g.production[j].action
       /\ Contains(g.production[j].body, MarkerName(1))

(***************************************************************************)
(* Properties of the table and of the conflict solver.                     *)
(***************************************************************************)
\* ConflictSolver.process has returned
Solved == pc = "solved"

\* build_table has returned and the solver has not run yet
Built_ == pc = "built"

\* C1: after ConflictSolver.process has returned, the table has the rows
\* and the cells build_table made, no other, and every cell holds exactly
\* one action, which is one of the actions the cell held
C1_OneActionPerCell ==
  Solved =>
    /\ Len(tab) = Len(raw)
    /\ \A r \in 1..Len(tab) :
         /\ DOMAIN tab[r] = DOMAIN raw[r]
         /\ \A c \in DOMAIN tab[r] :
              Cardinality(tab[r][c]) = 1 /\ tab[r][c] \subseteq raw[r][c]

\* the solver has resolved a cell of three actions and a cell of two, and a
\* row lacks the cell of some terminal
C1_Witness ==
  /\ Solved
  /\ \E r \in 1..Len(raw) : \E c \in DOMAIN raw[r] : Cardinality(raw[r][c]) = 3
  /\ \E r \in 1..Len(raw) : \E c \in DOMAIN raw[r] : Cardinality(raw[r][c]) = 2
  /\ \E r \in 1..Len(tab) : \E c \in g.terminal : c \notin DOMAIN tab[r]

\* the cells of a table that hold an Accept
AcceptCells(t) ==
  {rc \in UNION {{<<r, c>> : c \in DOMAIN t[r]} : r \in 1..Len(t)} :
     \E a \in t[rc[1]][rc[2]] : a.name = ACCEPT}

\* the start symbol the user gave: the body of S^ -> start
UserStart == g.production[1].body[1]

\* C2 as stated: in the finished table Accept is in exactly one cell, the
\* cell under $ of the state reached from state 0 on the user's start symbol
C2_AcceptExactlyOnce ==
  Solved =>
    AcceptCells(tab) = {<<TableAnalyzer.link[1][UserStart] + 1, EOF>>}

\* C3 as stated: LALRAnalyzer makes as many states as LR0Analyzer and no
\* more than LR1Analyzer
C3_StateCounts ==
  (Built_ /\ algo = "lalr") =>
    /\ Len(la.state) =
         Len(build_states(g, ga.FIRST, initial_state(g, ga.FIRST, FALSE, EOF), FALSE).state)
    /\ Len(la.state) <=
         Len(build_states(g, ga.FIRST, initial_state(g, ga.FIRST, TRUE, EOF), TRUE).state)

Core(rp) == <<rp.rule, rp.index>>

\* the items of state s of the table with the dot before X, advanced
Advanced(s, X) ==
  {advance(rp) : rp \in {q \in Range(TableAnalyzer.state[s].closure) : NextOf(g, q) = X}}

\* C6 as stated: a Shift(t) in cell (s, X) has a closure item of s with the
\* dot before X, link[s][X] = t, and the kernel of t is the set of the
\* items of s advanced over X (their cores for LALR)
C6_ShiftFollowsLink ==
  Built_ =>
    \A s \in 1..Len(tab) : \A X \in DOMAIN tab[s] : \A a \in tab[s][X] :
       a.name = SHIFT =>
         /\ Advanced(s, X) # {}
         /\ X \in DOMAIN TableAnalyzer.link[s]
         /\ TableAnalyzer.link[s][X] = a.target
         /\ IF algo = "lalr"
            THEN {Core(rp) : rp \in Range(TableAnalyzer.state[a.target + 1].kernel)}
                 = {Core(rp) : rp \in Advanced(s, X)}
            ELSE Range(TableAnalyzer.state[a.target + 1].kernel) = Advanced(s, X)

\* C7: the second build from the same Grammar object with the same
\* algorithm registers the same kernels under the same uuids, fills every
\* cell with the same actions, and leaves the same action in every cell
\* after conflict resolution
C7_SecondBuildIdentical ==
  /\ (run = 2 /\ Built_) => Kernels(TableAnalyzer) = prev.kernel /\ raw = prev.raw
  /\ (run = 2 /\ Solved) => tab = prev.tab /\ raw = prev.raw

\* the second build has resolved a table with conflicts
C7_Witness ==
  /\ run = 2
  /\ Solved
  /\ Conflicted(raw)
  /\ Len(tab) > 3
  /\ tab = prev.tab

\* the grammar S: L '=' R | R ; L: '*' R | id ; R: L ; augmented
IsAssignGrammar ==
  /\ Len(g.production) = 6
  /\ g.production[2].head = "S" /\ g.production[2].body = <<"L", "'='", "R">>
  /\ g.production[3].head = "S" /\ g.production[3].body = <<"R">>
  /\ g.production[4].head = "L" /\ g.production[4].body = <<"'*'", "R">>
  /\ g.production[5].head = "L" /\ g.production[5].body = <<"id">>
  /\ g.production[6].head = "R" /\ g.production[6].body = <<"L">>

\* a cell of row s under '=' with a Shift and the Reduce by R -> L, in a
\* state that holds R -> L with the dot at the end
ShiftReduceOnAssign(s) ==
  /\ \E rp \in Range(an.state[s].closure) :
        Prod(g, rp.rule).head = "R" /\ Prod(g, rp.rule).body = <<"L">> /\ satisfied(g, rp)
  /\ "'='" \in DOMAIN tab[s]
  /\ \E a, b \in tab[s]["'='"] :
        /\ a.name = SHIFT
        /\ b.name = REDUCE
        /\ Prod(g, b.target).head = "R" /\ Prod(g, b.target).body = <<"L">>

\* C9: for the grammar S: L '=' R | R ; L: '*' R | id ; R: L ; the SLR
\* table as build_table leaves it has a cell under '=' with a Shift and the
\* Reduce by R -> L in a state that holds R -> L . ; the LR(1) table has no
\* cell with more than one action
C9_AssignGrammarTables ==
  (Built_ /\ IsAssignGrammar) =>
    /\ algo = "slr" => \E s \in 1..Len(tab) : ShiftReduceOnAssign(s)
    /\ algo = "lr1" => ~Conflicted(tab)

\* the SLR table of the grammar has been built, with its conflict
C9_Witness ==
  /\ Built_
  /\ IsAssignGrammar
  /\ algo = "slr"
  /\ Len(tab) = 10
  /\ Conflicted(tab)

(***************************************************************************)
(* Properties of the driver.                                               *)
(***************************************************************************)
\* the grammar %left '+' %left '*' E: E '+' E | E '*' E | number ; augmented
IsExprGrammar ==
  /\ Len(g.production) = 4
  /\ g.production[2].head = "E" /\ g.production[2].body = <<"E", "'+'", "E">>
  /\ g.production[3].head = "E" /\ g.production[3].body = <<"E", "'*'", "E">>
  /\ g.production[4].head = "E" /\ g.production[4].body = <<"number">>
  /\ DOMAIN g.precedence = {"'+'", "'*'"}
  /\ g.precedence["'+'"] < g.precedence["'*'"]
  /\ g.assoc["'+'"] = "left" /\ g.assoc["'*'"] = "left"

\* the texts of the tokens number + number * number + number
SumProductSum == <<"1", "+", "2", "*", "3", "+", "4">>

\* the names of those tokens, and the end of the input after them
SumProductSumNames ==
  <<"number", "'+'", "number", "'*'", "number", "'+'", "number", EOF>>

\* the driver has been given a prefix of that input: what it has shifted
\* and its lookahead are the tokens of the input, in order
OnSumProductSum ==
  /\ pc = "parser"
  /\ Len(pda.input_stack) < Len(SumProductSumNames)
  /\ pda.input_stack = SubSeq(SumProductSum, 1, Len(pda.input_stack))
  /\ pda.current.name = SumProductSumNames[Len(pda.input_stack) + 1]

\* ((1 + (2 * 3)) + 4)
GroupedLeft ==
  Node("E", << Node("E", << Node("E", <<Leaf("1")>>),
                           Leaf("+"),
                           Node("E", << Node("E", <<Leaf("2")>>),
                                        Leaf("*"),
                                        Node("E", <<Leaf("3")>>) >>) >>),
               Leaf("+"),
               Node("E", <<Leaf("4")>>) >>)

\* C10: for the grammar E: E '+' E | E '*' E | number with %left '+'
\* before %left '*', with every algorithm, the solver ends without a
\* warning, and the driver given number + number * number + number meets no
\* error and, when it stops, has accepted with the tree ((1+(2*3))+4)
C10_ExprGroupsLeft ==
  IsExprGrammar =>
    /\ pc # "crashed"
    /\ pc \in {"solved", "parser"} => warned = 0 /\ ~Conflicted(tab)
    /\ OnSumProductSum =>
         /\ pda.error = None
         /\ pda.raised = None
         /\ pda.accepted => pda.result = GroupedLeft
         /\ pda.accepted => pda.input_stack = SumProductSum

\* the driver has accepted that input
C10_Witness ==
  /\ IsExprGrammar
  /\ algo = "lalr"
  /\ Conflicted(raw)
  /\ warned = 0
  /\ OnSumProductSum
  /\ pda.accepted
  /\ pda.input_stack = SumProductSum
  /\ pda.result = GroupedLeft

\* the grammar E: E '+' T | T ; T: T '*' F | F ; F: number | '(' E ')' ;
\* augmented
IsTermGrammar ==
  /\ Len(g.production) = 7
  /\ g.production[2].head = "E" /\ g.production[2].body = <<"E", "'+'", "T">>
  /\ g.production[3].head = "E" /\ g.production[3].body = <<"T">>
  /\ g.production[4].head = "T" /\ g.production[4].body = <<"T", "'*'", "F">>
  /\ g.production[5].head = "T" /\ g.production[5].body = <<"F">>
  /\ g.production[6].head = "F" /\ g.production[6].body = <<"number">>
  /\ g.production[7].head = "F" /\ g.production[7].body = <<"'('", "E", "')'">>

\* the driver has been given a prefix of the input whose tokens have the
\* given texts and names (the names end with $): what it has shifted and
\* its lookahead are the tokens of the input, in order
OnTokens(texts, names) ==
  /\ pc = "parser"
  /\ Len(pda.input_stack) < Len(names)
  /\ pda.input_stack = SubSeq(texts, 1, Len(pda.input_stack))
  /\ pda.current.name = names[Len(pda.input_stack) + 1]

\* the driver on that input meets no error and, once it has accepted, has
\* shifted all of it and holds the given tree
AcceptsWith(texts, names, tree) ==
  OnTokens(texts, names) =>
    /\ pda.error = None
    /\ pda.raised = None
    /\ pda.accepted => pda.result = tree /\ pda.input_stack = texts

\* number + number * number
SumProduct == <<"1", "+", "2", "*", "3">>

SumProductNames == <<"number", "'+'", "number", "'*'", "number", EOF>>

\* number * ( number + number )
ProductOfSum == <<"1", "*", "(", "2", "+", "3", ")">>

ProductOfSumNames ==
  <<"number", "'*'", "'('", "number", "'+'", "number", "')'", EOF>>

\* the parse tree of a number: E or T over F over the token
NumberAs(head, text) ==
  IF head = "F" THEN Node("F", <<Leaf(text)>>)
  ELSE IF head = "T" THEN Node("T", <<Node("F", <<Leaf(text)>>)>>)
  ELSE Node("E", <<Node("T", <<Node("F", <<Leaf(text)>>)>>)>>)

\* (+ 1 (* 2 3))
SumOfProductTree ==
  Node("E", << NumberAs("E", "1"),
               Leaf("+"),
               Node("T", <<NumberAs("T", "2"), Leaf("*"), NumberAs("F", "3")>>) >>)

\* (* 1 (+ 2 3))
ProductOfSumTree ==
  Node("E", <<
    Node("T", << NumberAs("T", "1"),
                 Leaf("*"),
                 Node("F", << Leaf("("),
                              Node("E", <<NumberAs("E", "2"), Leaf("+"),
                                          NumberAs("T", "3")>>),
                              Leaf(")") >>) >>) >>)

\* C11: for the grammar E: E '+' T | T ; T: T '*' F | F ; F: number |
\* '(' E ')' the LR(1) and the LALR table have no cell with two actions;
\* the lr1 driver on number + number * number meets no error and accepts
\* with the tree (+ 1 (* 2 3)); the lalr driver on number * ( number +
\* number ) meets no error and accepts with the tree (* 1 (+ 2 3))
C11_TermGrammarParses ==
  (IsTermGrammar /\ algo \in {"lr1", "lalr"}) =>
    /\ pc # "crashed"
    /\ pc \in {"built", "solved", "parser"} => ~Conflicted(raw) /\ ~Conflicted(tab)
    /\ algo = "lr1" => AcceptsWith(SumProduct, SumProductNames, SumOfProductTree)
    /\ algo = "lalr" => AcceptsWith(ProductOfSum, ProductOfSumNames, ProductOfSumTree)

\* the lalr driver has accepted number * ( number + number )
C11_Witness ==
  /\ IsTermGrammar
  /\ algo = "lalr"
  /\ Len(tab) = 12
  /\ pda.accepted
  /\ pda.input_stack = ProductOfSum
  /\ pda.result = ProductOfSumTree

\* the lr1 driver has accepted number + number * number
C11_WitnessLR1 ==
  /\ IsTermGrammar
  /\ algo = "lr1"
  /\ Len(tab) = 22
  /\ pda.accepted
  /\ pda.input_stack = SumProduct
  /\ pda.result = SumOfProductTree

(***************************************************************************)
(* Properties of the callbacks.                                            *)
(***************************************************************************)
\* the grammar A: 'x' {tag} 'y' ; analyzed and augmented
IsTagGrammar ==
  /\ Len(g.production) = 3
  /\ g.production[2].head = "A"
  /\ ActionNames(g) = {"tag"}

\* the semantic-action object installed has a callback of that name
Registered(name) ==
  pda.semantic_action.installed /\ name \in pda.semantic_action.methods

\* the call of tag after x alone has been shifted: the production handed
\* over is the lifted rule, the arguments are the value below the handle
\* of the rule and the value of 'x'
TagCall ==
  [name |-> "tag", rule |-> <<"A", <<"'x'", "M@1", "'y'">>>>,
   args |-> <<Leaf(None), Leaf("x")>>, shifted |-> 1]

\* C12: for the grammar A: 'x' {tag} 'y' with a callback registered for
\* tag, with every algorithm, the driver on the tokens x y meets no error,
\* has not called tag before x is shifted, has called it exactly once, with
\* only x shifted, by the time y is shifted, never calls it again, and
\* when it stops it has accepted with the value of the callback in the tree
C12_TagFiresOnceBeforeY ==
  (IsTagGrammar /\ Registered("tag")
     /\ OnTokens(<<"x", "y">>, <<"'x'", "'y'", EOF>>)) =>
    /\ pda.error = None
    /\ pda.raised = None
    /\ Len(pda.input_stack) = 0 => pda.calls = <<>>
    /\ Len(pda.input_stack) = 1 => pda.calls \in {<<>>, <<TagCall>>}
    /\ Len(pda.input_stack) = 2 => pda.calls = <<TagCall>>
    /\ pda.accepted =>
         /\ pda.input_stack = <<"x", "y">>
         /\ pda.result = Node("A", <<Leaf("x"), Callback("tag", TagCall.rule, TagCall.args),
                                     Leaf("y")>>)

\* the driver has accepted x y after one call of tag
C12_Witness ==
  /\ IsTagGrammar
  /\ Registered("tag")
  /\ algo = "lalr"
  /\ pda.accepted
  /\ pda.input_stack = <<"x", "y">>
  /\ pda.calls = <<TagCall>>

\* the step the driver is about to take is a Reduce
Reducing ==
  /\ Running
  /\ Cardinality(Data) = 1
  /\ First(Data).name = REDUCE

\* the production of that Reduce
Reduced_ == Prod(g, First(Data).target)

\* the tags of the actions at the end of a production
EndTags(r) ==
  IF Len(r.body) \in DOMAIN r.action
  THEN {r.action[Len(r.body)][j][1] : j \in 1..Len(r.action[Len(r.body)])}
  ELSE {}

\* the tags at the end of a production that have no callback
Missing(r) == EndTags(r) \ pda.semantic_action.methods

\* C13 as stated: a Reduce by a production that carries an end-of-rule tag
\* without a callback raises the error that names such a tag and leaves
\* the stacks as they were, whether an object without the callback or no
\* object at all is installed
C13_MissingCallbackIsHardError ==
  [][(Reducing /\ Missing(Reduced_) # {}) =>
       /\ pda'.raised \in {KeyError(t) : t \in Missing(Reduced_)}
       /\ pda'.value_stack = pda.value_stack
       /\ pda'.state_stack = pda.state_stack]_vars

\* the calls the step has added to the history
NewCalls == SubSeq(pda'.calls, Len(pda.calls) + 1, Len(pda'.calls))

\* the top k + 1 entries of the value stack before the step
Window(k) ==
  SubSeq(pda.value_stack, Len(pda.value_stack) - k, Len(pda.value_stack))

\* the step is a Reduce by a production whose end-of-rule tags all have a
\* callback in the installed object
ReducingWithCallbacks ==
  /\ Reducing
  /\ EndTags(Reduced_) # {}
  /\ pda.semantic_action.installed
  /\ Missing(Reduced_) = {}

\* one call per action at the end of the production, each with the given
\* production and the top k + 1 values of the stack before the step
CalledWith(production, k) ==
  /\ Len(NewCalls) = Len(Reduced_.action[Len(Reduced_.body)])
  /\ \A i \in 1..Len(NewCalls) :
       /\ NewCalls[i].name = Reduced_.action[Len(Reduced_.body)][i][1]
       /\ NewCalls[i].rule = production
       /\ NewCalls[i].args = Window(k)
       /\ Len(NewCalls[i].args) = k + 1

\* C14 as stated: on every Reduce by a production of body length n with an
\* end-of-rule action, the callback gets that production and the n + 1
\* values on top of the value stack before anything is popped
C14_ArgsAreHandleWindow ==
  [][ReducingWithCallbacks =>
       CalledWith(<<Reduced_.head, Reduced_.body>>, Len(Reduced_.body))]_vars

\* C14, amended: that holds on every Reduce by a production that is not a
\* marker lifted from a mid-rule action; on a Reduce by a marker lifted
\* with stack offset k the callback gets the production the marker was
\* lifted from and the k + 1 values on top of the value stack
C14_ArgsAreHandleWindowOrLeftContext ==
  [][ReducingWithCallbacks =>
       IF Reduced_.parent = <<>>
       THEN CalledWith(<<Reduced_.head, Reduced_.body>>, Len(Reduced_.body))
       ELSE /\ Reduced_.body = <<>>
            /\ CalledWith(Reduced_.parent, Reduced_.action[0][1][2])]_vars

\* the driver has reduced L -> 'b' with two callbacks and L -> L 'a' with
\* one, the latter on the value the former left
C14_Witness ==
  /\ pc = "parser"
  /\ Len(pda.calls) = 3
  /\ pda.calls[1].name = "one" /\ pda.calls[1].args = <<Leaf(None), Leaf("b")>>
  /\ pda.calls[2].name = "two" /\ pda.calls[2].args = <<Leaf(None), Leaf("b")>>
  /\ pda.calls[3].name = "more"
  /\ pda.calls[3].rule = <<"L", <<"L", "'a'">>>>
  /\ pda.calls[3].args =
       <<Leaf(None), Callback("two", <<"L", <<"'b'">>>>, <<Leaf(None), Leaf("b")>>),
         Leaf("a")>>

(***************************************************************************)
(* Properties of the status of the driver.                                 *)
(***************************************************************************)
\* the status of a driver
Status(p) ==
  IF p.accepted THEN "Accepted" ELSE IF p.error # None THEN "Errored" ELSE "Running"

\* C15: once the driver has accepted or recorded an error, every step
\* leaves the state, symbol and value stacks, the lookahead, the accepted
\* flag, the error and the result as they are; the status never goes back
\* to Running nor from Accepted to Errored or back, and the two flags are
\* never set together
C15_StoppedStaysStopped ==
  [][/\ (pc = "parser" /\ Status(pda) # "Running") =>
          /\ pc' = "parser"
          /\ Status(pda') = Status(pda)
          /\ pda'.state_stack = pda.state_stack
          /\ pda'.symbol_stack = pda.symbol_stack
          /\ pda'.value_stack = pda.value_stack
          /\ pda'.current = pda.current
          /\ pda'.accepted = pda.accepted
          /\ pda'.error = pda.error
          /\ pda'.result = pda.result
     /\ ~(pda'.accepted /\ pda'.error # None)]_vars

\* the driver has recorded an error after it has shifted and reduced
C15_Witness ==
  /\ pc = "parser"
  /\ Status(pda) = "Errored"
  /\ Len(pda.input_stack) >= 2
  /\ Len(pda.state_stack) >= 2
  /\ pda.error = "unexpected token"

\* the driver has accepted
C15_WitnessAccepted ==
  /\ pc = "parser"
  /\ Status(pda) = "Accepted"
  /\ Len(pda.input_stack) >= 2

(***************************************************************************)
(* Properties of the grammar check.                                        *)
(***************************************************************************)
RECURSIVE DerivesTerminalsFrom(_, _)
\* the symbols that derive a string of terminals: the least set that holds
\* the terminals and the head of every production whose body lies in it
DerivesTerminalsFrom(gr, seen) ==
  LET more == seen \cup {gr.production[k].head :
                           k \in {j \in 1..Len(gr.production) :
                                    Range(gr.production[j].body) \subseteq seen}}
  IN IF more = seen THEN seen ELSE DerivesTerminalsFrom(gr, more)

\* a symbol of the grammar that is no token and has no rule
UsesUndefined(gr) ==
  \E n \in Range(gr.symbol) :
     n \notin gr.terminal /\ \A k \in 1..Len(gr.production) : gr.production[k].head # n

\* the start symbol derives no string of terminals
StartUnproductive(gr) == gr.start \notin DerivesTerminalsFrom(gr, gr.terminal)

\* process has gone past GrammarAnalyzer.process and check_grammar
Checked == pc \notin {"loaded", "analyzed"}

\* C16 as stated: when the grammar uses an undefined nonterminal, or its
\* start symbol derives no terminal string, or the integrity check has
\* found a mismatch, process has returned nonzero with no state and no
\* table built, and no parser is made
C16_BadGrammarAborts ==
  (Checked /\ run = 1
     /\ (UsesUndefined(g) \/ StartUnproductive(g) \/ ga.integrity > 0)) =>
    /\ pc = "rejected"
    /\ an = EmptyAnalyzer
    /\ la = EmptyAnalyzer
    /\ tab = <<>>

\* the part of C16 the analyzer keeps: an undefined nonterminal or an
\* unproductive start symbol ends process before any state is built
UndefinedOrUnproductiveAborts ==
  (Checked /\ run = 1 /\ (UsesUndefined(g) \/ StartUnproductive(g))) =>
    /\ pc = "rejected"
    /\ an = EmptyAnalyzer
    /\ la = EmptyAnalyzer
    /\ tab = <<>>

(***************************************************************************)
(* C17.  Shift against Reduce without a precedence on one side.            *)
(***************************************************************************)
\* the cells of the table as build_table left it
Cells == UNION {{<<r, c>> : c \in DOMAIN raw[r]} : r \in 1..Len(raw)}

\* the cell holds one Shift and one Reduce, and nothing else
ShiftReduceCell(rc) ==
  /\ Cardinality(raw[rc[1]][rc[2]]) = 2
  /\ \E s \in raw[rc[1]][rc[2]] : s.name = SHIFT
  /\ \E r \in raw[rc[1]][rc[2]] : r.name = REDUCE

ShiftOf(rc) == CHOOSE s \in raw[rc[1]][rc[2]] : s.name = SHIFT

ReduceOf(rc) == CHOOSE r \in raw[rc[1]][rc[2]] : r.name = REDUCE

\* the precedence tag of the production the cell reduces by
ReduceTag(rc) == Prod(g, ReduceOf(rc).target).precedence

\* the reducing production has no tag, or the lookahead of the cell has no
\* declared precedence
Undeclared(rc) == ReduceTag(rc) = None \/ rc[2] \notin DOMAIN g.precedence

\* C17: once the solver has run on a table with a cell that holds a Shift
\* and a Reduce, where the reducing production has no precedence tag or the
\* lookahead terminal of the cell has no declared precedence, a warning was
\* written and the cell holds the Shift alone, whatever the order in which
\* the two actions were visited.
C17_UndeclaredKeepsShift ==
  Solved =>
    \A rc \in Cells :
      ShiftReduceCell(rc) /\ Undeclared(rc) =>
        warned > 0 /\ tab[rc[1]][rc[2]] = {ShiftOf(rc)}

\* the part of C17 the solver does keep: a reducing production without a
\* tag loses to the Shift, in either order of the two actions
UntaggedReduceKeepsShift ==
  Solved =>
    \A rc \in Cells :
      ShiftReduceCell(rc) /\ ReduceTag(rc) = None =>
        warned > 0 /\ tab[rc[1]][rc[2]] = {ShiftOf(rc)}

(***************************************************************************)
(* C18.  Shift against Reduce with a declared precedence on both sides.    *)
(***************************************************************************)
\* the tag of the reducing production and the lookahead of the cell both
\* have a declared precedence
DeclaredBoth(rc) ==
  /\ ReduceTag(rc) \in DOMAIN g.precedence
  /\ rc[2] \in DOMAIN g.precedence

\* the cell holds nothing but an Error action
ErrorCell(cell) == Cardinality(cell) = 1 /\ \A a \in cell : a.name = ERROR

\* what precedence and associativity ask of a cell: the higher level, and
\* among equal levels the associativity of the lookahead
Decided(rc, cell) ==
  LET p == g.precedence[ReduceTag(rc)]
      q == g.precedence[rc[2]]
  IN IF p > q THEN cell = {ReduceOf(rc)}
     ELSE IF p < q THEN cell = {ShiftOf(rc)}
     ELSE IF g.assoc[rc[2]] = "left" THEN cell = {ReduceOf(rc)}
     ELSE IF g.assoc[rc[2]] = "right" THEN cell = {ShiftOf(rc)}
     ELSE ErrorCell(cell)

\* C18: once the solver has run, every cell that held a Shift and a Reduce
\* with a declared precedence on both sides holds the action of the higher
\* level; among equal levels the Reduce under left, the Shift under right and
\* an Error action under nonassoc, whatever the order in which the two
\* actions were visited.
C18_DeclaredDecides ==
  Solved =>
    \A rc \in Cells :
      ShiftReduceCell(rc) /\ DeclaredBoth(rc) => Decided(rc, tab[rc[1]][rc[2]])

\* the same without the nonassoc cells
DeclaredDecidesUnlessNonassoc ==
  Solved =>
    \A rc \in Cells :
      ShiftReduceCell(rc) /\ DeclaredBoth(rc) /\ g.assoc[rc[2]] # "nonassoc"
        => Decided(rc, tab[rc[1]][rc[2]])

(***************************************************************************)
(* C19.  Reduce against Reduce without a precedence tag on one side.       *)
(***************************************************************************)
\* the cell holds two Reduce actions, and nothing else
ReduceReduceCell(rc) ==
  /\ Cardinality(raw[rc[1]][rc[2]]) = 2
  /\ \A a \in raw[rc[1]][rc[2]] : a.name = REDUCE

\* one of the productions the cell reduces by has no precedence tag
SomeUntagged(rc) ==
  \E a \in raw[rc[1]][rc[2]] : Prod(g, a.target).precedence = None

\* the Reduce of the cell whose production has the lower index
LowerReduce(rc) ==
  CHOOSE a \in raw[rc[1]][rc[2]] : \A b \in raw[rc[1]][rc[2]] : a.target <= b.target

\* C19: once the solver has run, every cell that held two Reduce actions, at
\* least one of them by a production without a precedence tag, has had a
\* warning written and holds the Reduce by the production of lower index
\* alone, whatever the order in which the two actions were visited.
C19_UntaggedKeepsLowerIndex ==
  Solved =>
    \A rc \in Cells :
      ReduceReduceCell(rc) /\ SomeUntagged(rc) =>
        warned > 0 /\ tab[rc[1]][rc[2]] = {LowerReduce(rc)}

\* such a cell is left with one of its two Reduce actions, and warned of
UntaggedKeepsOneReduce ==
  Solved =>
    \A rc \in Cells :
      ReduceReduceCell(rc) /\ SomeUntagged(rc) =>
        /\ warned > 0
        /\ \E a \in raw[rc[1]][rc[2]] : tab[rc[1]][rc[2]] = {a}

(***************************************************************************)
(* C20.  LALR propagation stops at the fixpoint.                           *)
(***************************************************************************)
\* __build_lookahead has returned
PropagationStopped ==
  algo = "lalr" /\ pc \in {"complete", "built", "solved", "crashed", "parser"}

\* the lookahead set of the kernel item a link leads to
LookaheadAt(to) == lr.lookahead[to[1] + 1][to[2]]

\* every lookahead of kernel item k of state u - 1 is a lookahead of the
\* kernel items its links lead to
Carried(u, k) ==
  \A j \in 1..Len(lr.route[u][k]) : lr.lookahead[u][k] \subseteq LookaheadAt(lr.route[u][k][j])

\* C20: when the propagation has stopped the dirty set is empty, and along
\* every recorded link, from a kernel item to a kernel item of another state
\* or of its own state, the lookahead set of the source is a subset of the
\* lookahead set of the target.
C20_PropagationFixpoint ==
  PropagationStopped =>
    /\ lr.dirty = {}
    /\ \A u \in 1..Len(lr.route) : \A k \in 1..Len(lr.route[u]) : Carried(u, k)

\* the first half of C20 alone
DirtyEmptyWhenStopped == PropagationStopped => lr.dirty = {}

(***************************************************************************)
(* C21.  LALR lookaheads against the canonical LR(1) states.               *)
(***************************************************************************)
\* the states LR1Analyzer builds for the grammar
CanonicalStates ==
  build_states(g, ga.FIRST, initial_state(g, ga.FIRST, TRUE, EOF), TRUE).state

Cores(kernel) == {Core(rp) : rp \in Range(kernel)}

\* the lookaheads the canonical states with the kernel cores of LALR state
\* u - 1 attach to its kernel item k
MergedLookahead(u, k) ==
  {rp.lookahead :
     rp \in {q \in UNION {Range(s.kernel) :
                            s \in {c \in Range(CanonicalStates) :
                                     Cores(c.kernel) = Cores(an.state[u].kernel)}} :
               Core(q) = Core(an.state[u].kernel[k])}}

\* __build_lookahead has just returned and the LR(1) states are made
LookaheadsFinal == algo = "lalr" /\ pc = "complete"

\* C21: when the propagation has stopped, the lookahead set of every kernel
\* item of every LALR state is the union of the lookaheads the canonical
\* LR(1) states of the same core attach to that item, and does not hold '#'.
C21_LookaheadIsMergedCanonical ==
  LookaheadsFinal =>
    \A u \in 1..Len(lr.lookahead) : \A k \in 1..Len(lr.lookahead[u]) :
       /\ lr.lookahead[u][k] = MergedLookahead(u, k)
       /\ PSHARP \notin lr.lookahead[u][k]

\* what holds of C21: no lookahead outside the canonical ones, and no '#'
LookaheadWithinMergedCanonical ==
  LookaheadsFinal =>
    \A u \in 1..Len(lr.lookahead) : \A k \in 1..Len(lr.lookahead[u]) :
       /\ lr.lookahead[u][k] \subseteq MergedLookahead(u, k)
       /\ PSHARP \notin lr.lookahead[u][k]

(***************************************************************************)
(* C22.  A state is its kernel.                                            *)
(***************************************************************************)
\* the analyzer is inside the loop of __build_states
Expanding == pc = "states"

\* no two registered states have the same kernel items
DistinctKernels ==
  \A i, j \in 1..Len(an.state) :
     i # j => Range(an.state[i].kernel) # Range(an.state[j].kernel)

\* the items of registered state s - 1 with the dot before X, advanced
GotoOf(s, X) ==
  {advance(rp) : rp \in {q \in Range(an.state[s].closure) : NextOf(g, q) = X}}

\* every link leads to the registered state whose kernel is the GOTO kernel
LinkedToGoto ==
  \A s \in 1..Len(an.link) : \A X \in DOMAIN an.link[s] :
     /\ an.link[s][X] \in 0..(Len(an.state) - 1)
     /\ Range(an.state[an.link[s][X] + 1].kernel) = GotoOf(s, X)

\* a state taken from the queue has a link for every symbol after a dot
ExpandedLinked ==
  \A s \in 1..Len(an.state) :
     (s - 1) \notin Range(an.pending) =>
        \A rp \in Range(an.state[s].closure) :
           NextOf(g, rp) # None => NextOf(g, rp) \in DOMAIN an.link[s]

\* the lowest uuid with a link to state t - 1
FirstParent(t) ==
  CHOOSE s \in 1..Len(an.link) :
     /\ \E X \in DOMAIN an.link[s] : an.link[s][X] = t - 1
     /\ \A r \in 1..(s - 1) : \A X \in DOMAIN an.link[r] : an.link[r][X] # t - 1

\* uuids in order of first discovery: state 0 is the initial state, every
\* other state was found from a state of lower uuid, states found from an
\* earlier state have the lower uuids, and the queue holds the last uuids
DiscoveryOrder ==
  /\ an.state # <<>> =>
       an.state[1].kernel = <<RulePtr(0, 0, InitialLookahead(algo))>>
  /\ \A t \in 2..Len(an.state) :
       /\ \E s \in 1..(t - 1) : \E X \in DOMAIN an.link[s] : an.link[s][X] = t - 1
       /\ \A u \in 2..(t - 1) : FirstParent(u) <= FirstParent(t)
  /\ an.pending =
       [i \in 1..Len(an.pending) |-> Len(an.state) - Len(an.pending) + i - 1]

\* C22: at every point of state expansion, with every algorithm, no two
\* registered states have equal kernels, every GOTO kernel is linked to the
\* one registered state with that kernel, and the uuids are 0..n-1 in order
\* of first discovery with the initial state as 0.
C22_StateIsKernel ==
  Expanding =>
    /\ DistinctKernels
    /\ LinkedToGoto
    /\ ExpandedLinked
    /\ DiscoveryOrder

\* the expansion has met a GOTO kernel that was registered before: a state
\* is linked from a state of no lower uuid, and another from two states
C22_Witness ==
  /\ Expanding
  /\ Len(an.state) >= 4
  /\ \E s \in 1..Len(an.link) : \E X \in DOMAIN an.link[s] : an.link[s][X] <= s - 1
  /\ \E s, r \in 1..Len(an.link) :
       /\ s # r
       /\ \E X \in DOMAIN an.link[s] \cap DOMAIN an.link[r] : an.link[s][X] = an.link[r][X]

(***************************************************************************)
(* C23.  backlink against link.                                            *)
(***************************************************************************)
\* __build_states has returned: every registered state was expanded
Expanded ==
  /\ pc \in {"states", "lookahead", "complete", "built", "solved", "parser"}
  /\ an.state # <<>>
  /\ an.pending = <<>>

\* C23: after state expansion, for every state s, symbol X and state t with
\* link[s][X] = t, backlink[t] has the key X and backlink[t][X] = s.
C23_BacklinkInvertsLink ==
  Expanded =>
    \A s \in 1..Len(an.link) : \A X \in DOMAIN an.link[s] :
       /\ X \in DOMAIN an.backlink[an.link[s][X] + 1]
       /\ an.backlink[an.link[s][X] + 1][X] = s - 1

\* what holds of C23: every backlink is the reverse of a link, and a state
\* that is linked to has a backlink under the symbol, from the state of
\* lowest uuid with such a link
BacklinkIsFirstLink ==
  Expanded =>
    /\ \A t \in 1..Len(an.backlink) : \A X \in DOMAIN an.backlink[t] :
          /\ X \in DOMAIN an.link[an.backlink[t][X] + 1]
          /\ an.link[an.backlink[t][X] + 1][X] = t - 1
    /\ \A s \in 1..Len(an.link) : \A X \in DOMAIN an.link[s] :
          /\ X \in DOMAIN an.backlink[an.link[s][X] + 1]
          /\ an.backlink[an.link[s][X] + 1][X] <= s - 1

(***************************************************************************)
(* C24.  Lifting of mid-rule actions, and the offset at the reduction.     *)
(***************************************************************************)
\* the step is GrammarAnalyzer.process on the grammar as it was loaded
Lifting == pc = "loaded" /\ pc' = "analyzed"

RECURSIVE MidCount(_, _)
\* the number of mid-rule positions of the first n productions
MidCount(prods, n) ==
  IF n = 0 THEN 0 ELSE MidCount(prods, n - 1) + Cardinality(MidKeys(prods[n]))

\* where the production written as number i stands after lifting
StartOf(prods, i) == i + MidCount(prods, i - 1)

\* the number of mid-rule positions of p before position pos
MidBefore(p, pos) == Cardinality({k \in MidKeys(p) : k < pos})

RECURSIVE TagsOf(_, _)
\* the tags of the actions of the given positions, by increasing position
TagsOf(p, keys) ==
  IF keys = {} THEN <<>>
  ELSE LET k == CHOOSE x \in keys : \A y \in keys : x <= y
       IN [j \in 1..Len(p.action[k]) |-> p.action[k][j][1]] \o TagsOf(p, keys \ {k})

\* production p, written with mid-rule actions, against its parent and the
\* productions behind the parent in the lifted list out
LiftedAs(p, out, at, before) ==
  LET parent == out[at]
      k == Cardinality(MidKeys(p))
  IN /\ parent.head = p.head
     /\ Len(parent.body) = Len(p.body) + k
     /\ \A q \in 0..(Len(p.body) - 1) :
          parent.body[q + MidBefore(p, q + 1) + 1] = p.body[q + 1]
     /\ TagsOf(parent, DOMAIN parent.action) = TagsOf(p, EndKeys(p))
     /\ DOMAIN parent.action \subseteq {Len(parent.body)}
     /\ \A pos \in MidKeys(p) :
          LET r == MidBefore(p, pos)
              child == out[at + r + 1]
          IN /\ parent.body[pos + r + 1] = child.head
             /\ child.head \notin before
             /\ child.body = <<>>
             /\ child.parent = <<parent.head, parent.body>>
             /\ DOMAIN child.action = {0}
             /\ child.action[0] =
                  [j \in 1..Len(p.action[pos]) |-> <<p.action[pos][j][1], pos + r>>]
     /\ \A i, j \in (at + 1)..(at + k) : i # j => out[i].head # out[j].head

\* the lifted list out against the list prods it was made from
LiftedFrom(prods, out, before) ==
  /\ Len(out) = Len(prods) + MidCount(prods, Len(prods))
  /\ \A i \in 1..Len(prods) :
       IF MidKeys(prods[i]) = {}
       THEN Shape(out[StartOf(prods, i)]) = Shape(prods[i])
       ELSE LiftedAs(prods[i], out, StartOf(prods, i), before)
  /\ \A i, j \in 1..Len(out) :
       (i # j /\ out[i].parent # <<>> /\ out[j].parent # <<>>) => out[i].head # out[j].head

\* the step is a Reduce by a marker whose tags all have a callback
ReducingMarker == ReducingWithCallbacks /\ Reduced_.parent # <<>>

\* the stack offset the marker carries
OffsetOf(r) == r.action[0][1][2]

\* C24: GrammarAnalyzer.process turns every production with k >= 1 mid-rule
\* positions into a parent, the body with one fresh marker put in at each of
\* those positions and with the end-of-rule tags kept, followed by k
\* productions marker -> empty that carry the tags of their position in
\* order, with the index of the marker in the body of the parent as stack
\* offset; it keeps every other production as it is.  On the Reduce by a
\* marker the callbacks get the parent and offset + 1 values, the marker
\* stands at index offset of the body of the parent, and the last offset
\* values are those of the symbols of that body before the marker.
C24_LiftingThreadsOffsets ==
  [][/\ Lifting => LiftedFrom(g.production, g'.production, Range(g.symbol))
     /\ ReducingMarker =>
          /\ CalledWith(Reduced_.parent, OffsetOf(Reduced_))
          /\ Reduced_.parent[2][OffsetOf(Reduced_) + 1] = Reduced_.head
          /\ SubSeq(pda.symbol_stack, Len(pda.symbol_stack) - OffsetOf(Reduced_) + 1,
                    Len(pda.symbol_stack))
               = SubSeq(Reduced_.parent[2], 1, OffsetOf(Reduced_))]_vars

\* the driver has accepted x y for A: {zero} 'x' {one} {two} 'y' {end}: the
\* callbacks of the second marker got the value of the first and of 'x'
C24_Witness ==
  /\ pc = "parser"
  /\ pda.accepted
  /\ Len(pda.calls) = 4
  /\ pda.calls[1].name = "zero" /\ Len(pda.calls[1].args) = 1
  /\ pda.calls[3].name = "two"
  /\ pda.calls[3].rule = <<"A", <<"M@1", "'x'", "M@2", "'y'">>>>
  /\ pda.calls[3].args =
       <<Leaf(None), Callback("zero", pda.calls[1].rule, <<Leaf(None)>>), Leaf("x")>>
  /\ pda.calls[4].name = "end" /\ Len(pda.calls[4].args) = 5

(***************************************************************************)
(* C25.  The precedence tag Grammar.update gives a production.             *)
(***************************************************************************)
\* the rightmost terminal of the body of p, or None
Rightmost(p) == rightmost_terminal(g, p.body)

\* the tag of p is one that only %prec can have given
ExplicitTag(p) == p.precedence \notin {None, Rightmost(p)}

\* C25 as stated: every production whose tag was not set by %prec and whose
\* body holds a terminal has the name of the rightmost terminal as its tag.
C25_TagIsRightmostTerminal ==
  \A i \in 1..Len(g.production) :
     LET p == g.production[i]
     IN (~ExplicitTag(p) /\ Rightmost(p) # None) => p.precedence = Rightmost(p)

\* the tag of a production without %prec is the rightmost terminal of its
\* body when that terminal has a declared precedence, and none otherwise
TagsFilled ==
  \A i \in 1..Len(g.production) :
     LET p == g.production[i]
     IN ~ExplicitTag(p) =>
          p.precedence = IF Rightmost(p) # None /\ Rightmost(p) \in DOMAIN g.precedence
                         THEN Rightmost(p) ELSE None

\* the productions of a grammar that were written by the user
Written(gr) == SelectSeq(gr.production, LAMBDA p : p.parent = <<>> /\ p.head # AUG)

\* a step leaves every tag that is set as it is
TagsKept ==
  /\ Len(Written(g')) = Len(Written(g))
  /\ \A i \in 1..Len(Written(g)) :
       Written(g)[i].precedence # None =>
         Written(g')[i].precedence = Written(g)[i].precedence

\* C25, amended: a production without %prec is tagged with its rightmost
\* terminal when that terminal has a declared precedence and has no tag
\* otherwise, and no step of the analyzer changes a tag that is set.
C25_TagIsDeclaredRightmostTerminal == []TagsFilled /\ [][TagsKept]_vars

\* the augmented grammar %left '-' %right UMINUS
\* E: E '-' E | '-' E %prec UMINUS | number
IsUnaryGrammar ==
  /\ Len(g.production) = 4
  /\ DOMAIN g.precedence = {"'-'", "UMINUS"}
  /\ g.production[2].body = <<"E", "'-'", "E">>

\* the three cases in grammars the analyzer has run on: a tag from a
\* declared rightmost terminal, no tag over an undeclared one, and a %prec
\* tag kept over a declared rightmost terminal
C25_Witness ==
  /\ pc = "states"
  /\ \E i \in 1..Len(g.production) :
       LET p == g.production[i]
       IN /\ IsUnaryGrammar
          /\ i = 3
          /\ p.body = <<"'-'", "E">> /\ p.precedence = "UMINUS"
          /\ Rightmost(p) \in DOMAIN g.precedence
          /\ g.production[i - 1].precedence = "'-'"
          /\ g.production[i + 1].body = <<"number">>
          /\ g.production[i + 1].precedence = None

(***************************************************************************)
(* C26.  A step on a cell the table has no entry for.                      *)
(***************************************************************************)
\* the driver is running and the table has nothing under the top state
\* and the lookahead
NoEntry == Running /\ Data = {}

\* C26: a step of a running driver whose cell is empty records an error,
\* leaves the state, symbol and value stacks and the lookahead as they
\* are and reads no token; the driver is stopped after it, and the Parser
\* returns no value and exposes the error.
C26_NoEntryStops ==
  [][NoEntry =>
       /\ pda'.error = "unexpected token"
       /\ ~pda'.accepted
       /\ pda'.state_stack = pda.state_stack
       /\ pda'.symbol_stack = pda.symbol_stack
       /\ pda'.value_stack = pda.value_stack
       /\ pda'.current = pda.current
       /\ input' = input
       /\ is_stopped(pda')
       /\ Status(pda') = "Errored"
       /\ Parser_call(pda').value = Leaf(None)
       /\ Parser_call(pda').error = pda'.error]_vars

\* the driver has stopped on an empty cell in the middle of the input,
\* after a reduction, with tokens left unread
C26_Witness ==
  /\ pc = "parser"
  /\ pda.error = "unexpected token"
  /\ Data = {}
  /\ ~input.eof
  /\ pda.current.name # EOF
  /\ Len(pda.input_stack) >= 1
  /\ \E i \in 1..Len(pda.symbol_stack) : pda.symbol_stack[i] \notin g.terminal
  /\ Parser_call(pda).value = Leaf(None)

\* the lookahead of an open driver is a token
LookaheadIsToken == pc = "parser" => pda.current.name # None

(***************************************************************************)
(* C27.  The fixpoint loops end, and what they compute only grows.         *)
(***************************************************************************)
\* a flag that is decided keeps its value
FlagKept(old, new) == old # None => new = old

\* the flags of the symbols and of the productions that are decided are
\* kept by the step
FlagsKept ==
  /\ DOMAIN ga'.info = DOMAIN ga.info
  /\ \A n \in DOMAIN ga.info :
       /\ FlagKept(ga.info[n].is_epsilon, ga'.info[n].is_epsilon)
       /\ FlagKept(ga.info[n].has_epsilon, ga'.info[n].has_epsilon)
  /\ Len(g'.production) = Len(g.production)
  /\ \A k \in 1..Len(g.production) :
       /\ FlagKept(g.production[k].is_epsilon, g'.production[k].is_epsilon)
       /\ FlagKept(g.production[k].has_epsilon, g'.production[k].has_epsilon)

\* every set of the family new holds what the set of old held
SetsGrow(old, new) ==
  /\ DOMAIN new = DOMAIN old
  /\ \A n \in DOMAIN old : old[n] \subseteq new[n]

\* every lookahead set of every kernel item holds what it held
LookaheadsGrow ==
  /\ Len(lr'.lookahead) = Len(lr.lookahead)
  /\ \A u \in 1..Len(lr.lookahead) :
       /\ Len(lr'.lookahead[u]) = Len(lr.lookahead[u])
       /\ \A k \in 1..Len(lr.lookahead[u]) :
            lr.lookahead[u][k] \subseteq lr'.lookahead[u][k]

\* a step of a loop changes what the loop computes only by deciding a flag
\* or by adding to a set
LoopsOnlyGrow ==
  /\ pc = "epsilon" => FlagsKept
  /\ pc = "first" => SetsGrow(ga.FIRST, ga'.FIRST) /\ FlagsKept
  /\ pc = "follow" => SetsGrow(ga.FOLLOW, ga'.FOLLOW) /\ ga'.FIRST = ga.FIRST /\ FlagsKept
  /\ pc = "lookahead" => LookaheadsGrow

\* C27: the nullable-flag loop, the FIRST loop, the FOLLOW loop and the
\* lookahead-propagation loop each come to their end, and while they run
\* every set only grows and no decided flag is changed.
C27_LoopsEndAndOnlyGrow ==
  /\ [][LoopsOnlyGrow]_vars
  /\ (pc = "epsilon") ~> (pc = "first")
  /\ (pc = "first") ~> (pc = "follow")
  /\ (pc = "follow") ~> (pc = "analyzed")
  /\ (pc = "lookahead") ~> (pc \in {"complete", "crashed"})

\* the propagation has ended after rounds that added lookaheads, for a
\* grammar whose three loops each took a round that changed something
C27_Witness ==
  /\ pc = "complete"
  /\ algo = "lalr"
  /\ \E u \in 1..Len(lr.lookahead) : \E k \in 1..Len(lr.lookahead[u]) :
       Cardinality(lr.lookahead[u][k]) >= 2
  /\ \E n \in DOMAIN ga.info : ~Term(g, n) /\ ga.info[n].has_epsilon = T
  /\ \E n \in DOMAIN ga.FOLLOW : Cardinality(ga.FOLLOW[n]) >= 2
  /\ \E n \in DOMAIN ga.FIRST : Cardinality(ga.FIRST[n]) >= 2

\* the rounds taken one by one end with what GrammarAnalyzer.process
\* computes in one go
RoundsAgree ==
  pc = "analyzed" =>
    /\ update_epsilon(g, ga.info) = [g |-> g, info |-> ga.info]
    /\ ga.FIRST = update_first_set(g)
    /\ ga.FOLLOW = update_follow_set(g, ga.FIRST)
    /\ ga.SELECT = update_select_set(g, ga.FIRST, ga.FOLLOW)

(***************************************************************************)
(* C28.  Two drivers of one table do not disturb each other.               *)
(***************************************************************************)
\* what a run of a driver ends with
Outcome(p) ==
  [accepted |-> p.accepted, error |-> p.error, result |-> p.result,
   raised |-> p.raised, calls |-> p.calls]

\* driver i, run on alone from where it is with nothing more to read, ends
\* as a driver does that is opened on the names driver i has read and is
\* run alone
EndsAsAlone(i) ==
  Outcome(PDA_run(g, tab, pair[i].pda, pair[i].input, <<>>))
    = Outcome(Parser_run(g, tab, pair[i].pda.semantic_action, pair[i].fed))

\* every opened driver of the pair ends as it does alone
PairEndsAsAlone ==
  pc = "pair" => \A i \in 1..2 : pair[i].opened => EndsAsAlone(i)

\* a step of a driver leaves the table and the grammar as they are
SteppingKeepsTable ==
  pc = "pair" => tab' = tab /\ g' = g /\ raw' = raw

\* C28: stepping a driver changes neither the LR table nor the productions
\* of the grammar, and each of two drivers stepped in any order ends with
\* the accepted flag, the error and the result it ends with when it is run
\* alone on the names it has read.
C28_DriversIndependent == []PairEndsAsAlone /\ [][SteppingKeepsTable]_vars

\* both drivers have stopped after steps of each, one has accepted and the
\* other has recorded an error
C28_Witness ==
  /\ pc = "pair"
  /\ pair[1].opened /\ pair[2].opened
  /\ pair[1].pda.accepted
  /\ pair[2].pda.error # None
  /\ Len(pair[1].fed) = MaxPairInput
  /\ Len(pair[2].fed) = MaxPairInput
  /\ pair[1].fed # pair[2].fed

(***************************************************************************)
(* C29.  The stacks when the driver accepts.                               *)
(***************************************************************************)
\* the step a running driver p is about to take under table t is the Accept
AcceptingIn(c, t, p) ==
  /\ c = "parser"
  /\ ~is_stopped(p)
  /\ Cardinality(Cell(t, Top(p.state_stack), p.current.name)) = 1
  /\ First(Cell(t, Top(p.state_stack), p.current.name)).name = ACCEPT

Accepting == AcceptingIn(pc, tab, pda)

\* the state reached from state 0 on the user's start symbol
StartGoto == First(Cell(tab, 0, UserStart)).target

\* the driver gets to the Accept only by a Reduce to the user's start
\* symbol, and the value on top is the value of that reduction
AcceptFollowsStartReduce ==
  AcceptingIn(pc', tab', pda') =>
    /\ Reducing
    /\ Reduced_.head = UserStart
    /\ Top(pda'.symbol_stack) = UserStart
    /\ Top(pda'.value_stack) = rule_eval(pda, Reduced_).value

\* on the Accept the state stack is state 0 below the state reached on the
\* start symbol, the three stacks are as long, the assertion holds and the
\* result is the top of the value stack
AcceptOnTwoStates ==
  Accepting =>
    /\ Cardinality(Cell(tab, 0, UserStart)) = 1
    /\ pda.state_stack = <<0, StartGoto>>
    /\ pda.symbol_stack = <<EOF, UserStart>>
    /\ Len(pda.value_stack) = 2
    /\ pda'.raised = None
    /\ pda'.error = None
    /\ pda'.accepted
    /\ pda'.result = Top(pda.value_stack)
    /\ pda'.state_stack = pda.state_stack
    /\ pda'.value_stack = pda.value_stack

\* C29: whenever the driver takes the Accept, the state stack holds state
\* 0 and the state reached on the user's start symbol and nothing else, the
\* assertion of PDA.step holds, the three stacks are equally long, and the
\* result is the top of the value stack, the value of the last reduction
\* to the user's start symbol.
C29_AcceptOnTwoStates == [][AcceptOnTwoStates /\ AcceptFollowsStartReduce]_vars

\* the driver has accepted an input of several tokens with the value a
\* callback returned for the start symbol
C29_Witness ==
  /\ pc = "parser"
  /\ pda.accepted
  /\ Len(pda.state_stack) = 2
  /\ Len(pda.input_stack) >= 3
  /\ pda.result = Top(pda.value_stack)
  /\ pda.calls # <<>>
  /\ pda.result # Leaf(None)

(***************************************************************************)
(* C30.  PDA.run comes to its end.                                         *)
(***************************************************************************)
\* C30 as stated: the run of the driver ends after finitely many steps; in
\* particular the driver never gets back, by Reduce steps alone, to a
\* state stack it has had since it last read a token, from where it would
\* take the same Reduce steps without end.
C30_RunEnds == pc = "run" => ~Repeating

\* the grammar S: S | 'b', augmented
IsUnitGrammar ==
  /\ Len(g.production) = 3
  /\ g.production[2].body = <<"S">>
  /\ g.production[3].body = <<"'b'">>

\* the run ends for every grammar of the catalogue
CatalogueRunEnds == (pc = "run" /\ ~IsUnitGrammar) => ~Repeating

====
